---- MODULE Spec2Model ----
(***************************************************************************)
(* Gateway agent lifecycle of the Mission Control backend:                 *)
(*   backend/app/services/openclaw/admin_service.py                        *)
(*     GatewayAdminLifecycleService (reconcile, roster check, provision,   *)
(*     ensure, sweep, cascading cleanup)                                   *)
(*   backend/app/services/openclaw/onboarding_service.py                   *)
(*     BoardOnboardingMessagingService (dispatch of onboarding messages)   *)
(*                                                                         *)
(* Python values are encoded as follows.  None is the string "None" for    *)
(* text and structured fields, 0 for identifiers, hashes and timestamps.   *)
(* A raw agent token is a positive integer, its hash the negated integer.  *)
(* A text that may carry surrounding whitespace is a sequence of pieces,   *)
(* the piece " " standing for white space.                                 *)
(***************************************************************************)
EXTENDS Integers, Sequences, FiniteSets, TLC

(***************************************************************************)
(* Bounds of the model.                                                    *)
(***************************************************************************)
MaxClock == 4           \* handler calls and outside edits in one behaviour

Gateways == {1, 2}
SeqProcs == {1}         \* one request (one database session) at a time

NoId == 0
NoBoard == 0
NoHash == 0
NoTime == 0
None == "None"

(***************************************************************************)
(* Exceptions.  "gateway" is OpenClawGatewayError; "local" is OSError,     *)
(* RuntimeError or ValueError (the builtin TimeoutError is an OSError);    *)
(* "other" is any other subclass of Exception; "base" is a BaseException   *)
(* that is no Exception, such as asyncio.CancelledError.                   *)
(***************************************************************************)
ExceptionKinds == {"gateway", "local", "other"}
AllKinds == ExceptionKinds \cup {"base"}
Outcomes == {"ok"} \cup AllKinds

(***************************************************************************)
(* GatewayAgentIdentity: identifiers derived from the gateway's id alone.  *)
(***************************************************************************)
SessionKey(gateway) == <<"agent:mc-gateway-", ToString(gateway.id), ":main">>

OpenclawAgentId(gateway) == <<"mc-gateway-", ToString(gateway.id)>>

(***************************************************************************)
(* DefaultGatewayMainAgentManager.                                         *)
(***************************************************************************)
BuildMainAgentName(gateway) == <<gateway.name, "Gateway Agent">>

BuildIdentityProfile == "gateway_agent_profile"

DefaultHeartbeatConfig == "default_heartbeat"

(***************************************************************************)
(* Credential helpers.                                                     *)
(***************************************************************************)
HashAgentToken(raw) == 0 - raw

VARIABLES
    gateways,     \* Gateway rows: [Gateways -> [id, name, url]]
    committed,    \* Agent rows committed to the database: id -> row
    pending,      \* per session: rows added or changed, not yet committed
    nextId,       \* next fresh Agent identifier
    nextToken,    \* generate_agent_token(): the next fresh raw token
    clock,        \* utcnow(): advances with every call and outside edit
    registered,   \* remote roster: does gateway g list its main agent
    remoteToken,  \* remote gateway: raw token accepted last (0: none)
    pc,           \* per request: position in the running handler
    cur,          \* per request: locals of the running handler
    prov,         \* per request: the running or last provisioning call
    sweep,        \* per request: the running or last sweep iteration
    lastUpsert,   \* per request: the last reconcile call and its result
    prevUpsert,   \* per request: the reconcile call before lastUpsert
    result,       \* per request: how the last handler ended
    onboarding,   \* BoardOnboardingSession rows: board -> [session_key]
    sent,         \* the last message handed to the gateway by a dispatch
    dispatched,   \* how the last dispatch call ended
    dispatches,   \* number of dispatch calls made
    tables,       \* tasks, activity events, approvals as the session sees them
    durable,      \* the same tables as committed
    cleared       \* the last clear_agent_foreign_keys call and the tables before

lifecycleVars == <<gateways, committed, pending, nextId, nextToken, clock, registered,
                   remoteToken, pc, cur, prov, sweep, lastUpsert, prevUpsert,
                   result>>

dispatchVars == <<onboarding, sent, dispatched, dispatches>>

cleanupVars == <<tables, durable, cleared>>

vars == <<lifecycleVars, dispatchVars, cleanupVars>>

Procs == DOMAIN pc

(***************************************************************************)
(* The database session of request p: its own uncommitted rows laid over   *)
(* the committed ones (the session flushes before every query).            *)
(***************************************************************************)
Overlay(base, over) ==
    [a \in (DOMAIN base) \cup (DOMAIN over) |->
        IF a \in DOMAIN over THEN over[a] ELSE base[a]]

View(p) == Overlay(committed, pending[p])

EmptyRows == [a \in {} |-> 0]

(***************************************************************************)
(* find_main_agent: the rows of this gateway with board_id IS NULL.  The   *)
(* query has no ORDER BY, so first() may return any of them.               *)
(***************************************************************************)
FindMainAgent_BoardScoped(rows, gateway) ==
    {a \in DOMAIN rows :
        rows[a].gateway_id = gateway.id /\ rows[a].board_id # NoBoard}

FindMainAgent_AnyGateway(rows, gateway) ==
    {a \in DOMAIN rows : rows[a].board_id = NoBoard}

FindMainAgent(rows, gateway) ==
    {a \in DOMAIN rows :
        rows[a].gateway_id = gateway.id /\ rows[a].board_id = NoBoard}

(***************************************************************************)
(* upsert_main_agent_record, lines 165-205: the row constructed when none  *)
(* was found, then the corrections in the order of the code.  found is the *)
(* row find_main_agent returned, or NoRow.                                 *)
(***************************************************************************)
NoRow == [missing |-> TRUE]

NewMainAgent(gateway) ==
    [ name |-> BuildMainAgentName(gateway),
      status |-> "provisioning",
      board_id |-> NoBoard,
      gateway_id |-> gateway.id,
      is_board_lead |-> FALSE,
      openclaw_session_id |-> SessionKey(gateway),
      heartbeat_config |-> DefaultHeartbeatConfig,
      identity_profile |-> BuildIdentityProfile,
      agent_token_hash |-> NoHash,
      provision_requested_at |-> NoTime,
      provision_action |-> None,
      updated_at |-> NoTime ]

(***************************************************************************)
(* One "if <wrong>: agent.<field> = <value>; changed = True" of lines      *)
(* 178-201, on the pair s of the agent and the changed flag.               *)
(***************************************************************************)
Correction_Silent(s, wrong, field, value) ==
    IF wrong
    THEN [agent |-> [s.agent EXCEPT ![field] = value], changed |-> s.changed]
    ELSE s

Correction(s, wrong, field, value) ==
    IF wrong
    THEN [agent |-> [s.agent EXCEPT ![field] = value], changed |-> TRUE]
    ELSE s

CorrectBoardId(s) ==
    Correction(s, s.agent.board_id # NoBoard, "board_id", NoBoard)

CorrectGatewayId(s, gateway) ==
    Correction(s, s.agent.gateway_id # gateway.id, "gateway_id", gateway.id)

CorrectIsBoardLead(s) ==
    Correction(s, s.agent.is_board_lead, "is_board_lead", FALSE)

CorrectName(s, gateway) ==
    Correction(s, s.agent.name # BuildMainAgentName(gateway),
               "name", BuildMainAgentName(gateway))

CorrectSessionId(s, gateway) ==
    Correction(s, s.agent.openclaw_session_id # SessionKey(gateway),
               "openclaw_session_id", SessionKey(gateway))

CorrectHeartbeatConfig_Overwrites(s) ==
    Correction(s, s.agent.heartbeat_config # DefaultHeartbeatConfig,
               "heartbeat_config", DefaultHeartbeatConfig)

CorrectHeartbeatConfig(s) ==
    Correction(s, s.agent.heartbeat_config = None,
               "heartbeat_config", DefaultHeartbeatConfig)

CorrectIdentityProfile(s) ==
    Correction(s, s.agent.identity_profile = None,
               "identity_profile", BuildIdentityProfile)

CorrectStatus(s) ==
    Correction(s, s.agent.status = "", "status", "provisioning")

Corrections(s, gateway) ==
    CorrectStatus(CorrectIdentityProfile(CorrectHeartbeatConfig(
        CorrectSessionId(CorrectName(CorrectIsBoardLead(
            CorrectGatewayId(CorrectBoardId(s), gateway)),
            gateway), gateway))))

UpsertMainAgentRecord(gateway, found, now) ==
    LET created == (found = NoRow)
        s0 == [ agent |-> IF created THEN NewMainAgent(gateway) ELSE found,
                changed |-> created ]
        s8 == Corrections(s0, gateway)
    IN  [ agent |-> IF s8.changed THEN [s8.agent EXCEPT !.updated_at = now]
                    ELSE s8.agent,
          changed |-> s8.changed,
          created |-> created ]

(***************************************************************************)
(* str.strip() on a text given as a sequence of pieces.                    *)
(***************************************************************************)
RECURSIVE StripLeft(_)
StripLeft(s) ==
    IF s # <<>> /\ Head(s) = " " THEN StripLeft(Tail(s)) ELSE s

RECURSIVE StripRight(_)
StripRight(s) ==
    IF s # <<>> /\ s[Len(s)] = " " THEN StripRight(SubSeq(s, 1, Len(s) - 1))
    ELSE s

Strip(s) == StripRight(StripLeft(s))

(***************************************************************************)
(* extract_agent_id_from_entry: a str entry gives its stripped text (None  *)
(* when blank); a dict gives the first of id, agentId, agent_id that is a  *)
(* non-blank str, stripped; anything else gives None.  The result is       *)
(* [none |-> TRUE] or [none |-> FALSE, value |-> text].                    *)
(***************************************************************************)
NoValue == [none |-> TRUE]

SomeValue(v) == [none |-> FALSE, value |-> v]

IsNonBlankStr(raw) == raw.kind = "str" /\ Strip(raw.value) # <<>>

ExtractAgentIdFromEntry_AgentIdFirst(item) ==
    IF item.kind = "str"
    THEN IF Strip(item.value) # <<>> THEN SomeValue(Strip(item.value))
         ELSE NoValue
    ELSE IF item.kind # "dict" THEN NoValue
    ELSE IF IsNonBlankStr(item.agentId) THEN SomeValue(Strip(item.agentId.value))
    ELSE IF IsNonBlankStr(item.id) THEN SomeValue(Strip(item.id.value))
    ELSE IF IsNonBlankStr(item.agent_id) THEN SomeValue(Strip(item.agent_id.value))
    ELSE NoValue

ExtractAgentIdFromEntry(item) ==
    IF item.kind = "str"
    THEN IF Strip(item.value) # <<>> THEN SomeValue(Strip(item.value))
         ELSE NoValue
    ELSE IF item.kind # "dict" THEN NoValue
    ELSE IF IsNonBlankStr(item.id) THEN SomeValue(Strip(item.id.value))
    ELSE IF IsNonBlankStr(item.agentId) THEN SomeValue(Strip(item.agentId.value))
    ELSE IF IsNonBlankStr(item.agent_id) THEN SomeValue(Strip(item.agent_id.value))
    ELSE NoValue

(***************************************************************************)
(* extract_agents_list: the payload itself when it is a list; the value of *)
(* "agents" of a dict when that is a (non-empty) list; else the empty list.*)
(***************************************************************************)
ExtractAgentsList(payload) ==
    IF payload.kind = "list" THEN payload.items
    ELSE IF payload.kind # "dict" THEN <<>>
    ELSE IF payload.agents.kind # "list" THEN <<>>
    ELSE payload.agents.items

(***************************************************************************)
(* gateway_has_main_agent_entry.  outcome is how openclaw_call ended and   *)
(* payload what it returned.  The result tells whether the remote call was *)
(* made, the exception that leaves the method ("none" if it returns) and   *)
(* the value returned.                                                     *)
(***************************************************************************)
RosterScan(payload, target_id) ==
    \E i \in 1..Len(ExtractAgentsList(payload)) :
        ExtractAgentIdFromEntry(ExtractAgentsList(payload)[i]) = SomeValue(target_id)

GatewayHasMainAgentEntry_FailClosed(gateway, outcome, payload) ==
    IF gateway.url = ""
    THEN [called |-> FALSE, raised |-> "none", value |-> FALSE]
    ELSE IF outcome = "gateway"
    THEN [called |-> TRUE, raised |-> "none", value |-> FALSE]
    ELSE IF outcome # "ok"
    THEN [called |-> TRUE, raised |-> outcome, value |-> FALSE]
    ELSE [called |-> TRUE, raised |-> "none",
          value |-> RosterScan(payload, OpenclawAgentId(gateway))]

GatewayHasMainAgentEntry(gateway, outcome, payload) ==
    IF gateway.url = ""
    THEN [called |-> FALSE, raised |-> "none", value |-> FALSE]
    ELSE IF outcome = "gateway"
    THEN [called |-> TRUE, raised |-> "none", value |-> TRUE]
    ELSE IF outcome # "ok"
    THEN [called |-> TRUE, raised |-> outcome, value |-> FALSE]
    ELSE [called |-> TRUE, raised |-> "none",
          value |-> RosterScan(payload, OpenclawAgentId(gateway))]

(***************************************************************************)
(* What agents.list of the remote gateway may answer, given whether the    *)
(* gateway lists the main agent: the shapes the roster check accepts.      *)
(***************************************************************************)
StrVal(v) == [kind |-> "str", value |-> v]

Absent == [kind |-> "none"]

ListOf(items) == [kind |-> "list", items |-> items]

DictEntry(id, agentId, agent_id) ==
    [kind |-> "dict", id |-> id, agentId |-> agentId, agent_id |-> agent_id]

OtherId == <<"worker-7">>

RemotePayloads(gateway, present) ==
    LET t == OpenclawAgentId(gateway)
    IN  IF present
        THEN { ListOf(<<StrVal(OtherId), StrVal(<<" ">> \o t)>>),
               [kind |-> "dict",
                agents |-> ListOf(<<DictEntry(Absent, StrVal(t), Absent)>>)] }
        ELSE { ListOf(<<StrVal(OtherId)>>),
               [kind |-> "dict", agents |-> Absent] }
(***************************************************************************)
(* History records.                                                        *)
(***************************************************************************)
NoCall == [gw |-> 0, agent |-> NoId, changed |-> FALSE, created |-> FALSE]

NoProv ==
    [ status |-> "none", caller |-> "none", gw |-> 0, agent |-> NoId,
      token |-> 0, at |-> NoTime, action |-> None, notify |-> FALSE,
      url |-> "", log |-> <<>>, failedStep |-> "none", failedKind |-> "none",
      given |-> None, hashBefore |-> NoHash ]

NoSweep ==
    [ gw |-> 0, agent |-> NoId, changed |-> FALSE, hasHash |-> FALSE,
      hashBefore |-> NoHash, roster |-> "none", called |-> FALSE,
      hasEntry |-> FALSE, decided |-> FALSE, provisioned |-> FALSE,
      repeat |-> FALSE ]

NoCur ==
    [ op |-> "none", gw |-> 0, agent |-> NoId, action |-> None,
      notify |-> FALSE, queue |-> <<>>, given |-> None,
      sync |-> [user |-> None, query |-> None, gateway |-> 0],
      list |-> <<>>, prior |-> <<>> ]

NoSyncCall == [made |-> FALSE]

NoCheck == [made |-> FALSE]

NoResult ==
    [ op |-> "none", outcome |-> "none", exc |-> "none", agent |-> NoId,
      call |-> NoSyncCall, value |-> None, swept |-> <<>>, check |-> NoCheck ]

Returned(op, agent) ==
    [NoResult EXCEPT !.op = op, !.outcome = "returned", !.agent = agent]

Raised(op, kind) ==
    [NoResult EXCEPT !.op = op, !.outcome = "raised", !.exc = kind]

(* The handler the caller invoked: sync_templates runs the sweep inside. *)
Handler(c) == IF c.sync # NoCur.sync THEN "sync" ELSE c.op

(***************************************************************************)
(* The state before any handler ran: gateway 1 with a URL, gateway 2 not   *)
(* yet configured, no main agent, nothing in the remote rosters, and one   *)
(* board-scoped agent (a board lead) on gateway 1.                         *)
(***************************************************************************)
BoardLead ==
    [ name |-> <<"Lead">>,
      status |-> "online",
      board_id |-> 1,
      gateway_id |-> 1,
      is_board_lead |-> TRUE,
      openclaw_session_id |-> <<"agent:lead-1">>,
      heartbeat_config |-> DefaultHeartbeatConfig,
      identity_profile |-> "lead_profile",
      agent_token_hash |-> HashAgentToken(1),
      provision_requested_at |-> NoTime,
      provision_action |-> None,
      updated_at |-> NoTime ]

InitLifecycleWith(procs, rows, urls, locals) ==
    /\ gateways = [g \in Gateways |->
                      [id |-> g, name |-> "Alpha", url |-> urls[g]]]
    /\ committed = rows
    /\ pending = [p \in procs |-> EmptyRows]
    /\ nextId = Cardinality(DOMAIN rows) + 1
    /\ nextToken = 2
    /\ clock = 1
    /\ registered = [g \in Gateways |-> FALSE]
    /\ remoteToken = [g \in Gateways |-> 0]
    /\ pc = [p \in procs |-> "idle"]
    /\ cur = [p \in procs |-> locals]
    /\ prov = [p \in procs |-> NoProv]
    /\ sweep = [p \in procs |-> NoSweep]
    /\ lastUpsert = [p \in procs |-> NoCall]
    /\ prevUpsert = [p \in procs |-> NoCall]
    /\ result = [p \in procs |-> NoResult]

InitLifecycle(procs, rows, urls) == InitLifecycleWith(procs, rows, urls, NoCur)

DefaultUrls == (1 :> "ws://gateway") @@ (2 :> "")

(***************************************************************************)
(* Onboarding dispatch: boards 1 and 2 belong to gateways 1 and 2, board 3 *)
(* has no gateway.  Each board has an onboarding session whose stored      *)
(* session key was written when the session started.                       *)
(***************************************************************************)
Boards == {1, 2, 3}

BoardGateway(board) == IF board \in Gateways THEN board ELSE NoId

NoMessage ==
    [session_key |-> <<>>, agent_name |-> "", message |-> "", deliver |-> FALSE]

NoDispatch ==
    [ op |-> "none", board |-> 0, send |-> "none", outcome |-> "none",
      exc |-> [exception |-> "none", operation |-> "none", cause |-> "none"],
      value |-> <<>> ]

InitDispatch(stored) ==
    /\ onboarding = stored
    /\ sent = NoMessage
    /\ dispatched = NoDispatch
    /\ dispatches = 0

DefaultOnboarding ==
    [b \in Boards |-> [session_key |-> <<"agent:mc-gateway-", "1", ":main">>]]

(***************************************************************************)
(* Tasks, activity events and approvals that reference agents.             *)
(***************************************************************************)
NoCleanup == [agent_id |-> NoId, before |-> <<>>]

InitCleanup(rows) ==
    /\ tables = rows
    /\ durable = rows
    /\ cleared = NoCleanup

NoTables == [tasks |-> <<>>, events |-> <<>>, approvals |-> <<>>]

Init ==
    /\ InitLifecycle(SeqProcs, 1 :> BoardLead, DefaultUrls)
    /\ InitDispatch(DefaultOnboarding)
    /\ InitCleanup(NoTables)

(***************************************************************************)
(* One call of upsert_main_agent_record(gateway g) in the session of       *)
(* request p at time now: find (a is the row found, NoId when there is     *)
(* none), construct or correct, and session.add when changed.  No commit.  *)
(***************************************************************************)
FindChoices(p, g) ==
    IF FindMainAgent(View(p), gateways[g]) = {} THEN {NoId}
    ELSE FindMainAgent(View(p), gateways[g])

UpsertResult(p, g, a, now) ==
    UpsertMainAgentRecord(gateways[g],
                          IF a = NoId THEN NoRow ELSE View(p)[a], now)

UpsertAgentId(p, g, a, now) ==
    IF UpsertResult(p, g, a, now).created THEN nextId ELSE a

(***************************************************************************)
(* What the call leaves to be written: the agent constructed and added     *)
(* (line 176), or the row found when an assignment of lines 178-203        *)
(* changed one of its attributes.  session.add of an unmodified row (line  *)
(* 204) writes nothing.                                                    *)
(***************************************************************************)
UpsertStages(p, g, a, now) ==
    \/ UpsertResult(p, g, a, now).created
    \/ UpsertResult(p, g, a, now).agent # View(p)[a]

Upsert(p, g, a, now) ==
    LET r == UpsertResult(p, g, a, now)
        id == UpsertAgentId(p, g, a, now)
    IN  /\ pending' = IF UpsertStages(p, g, a, now)
                      THEN [pending EXCEPT ![p] = Overlay(@, id :> r.agent)]
                      ELSE pending
        /\ nextId' = IF r.created THEN nextId + 1 ELSE nextId
        /\ prevUpsert' = [prevUpsert EXCEPT ![p] = lastUpsert[p]]
        /\ lastUpsert' = [lastUpsert EXCEPT ![p] =
                [gw |-> g, agent |-> id, changed |-> r.changed,
                 created |-> r.created]]

(* A handler starts: the records of the request's earlier calls are dropped. *)
ForgetCalls(p) ==
    /\ prov' = [prov EXCEPT ![p] = NoProv]
    /\ sweep' = [sweep EXCEPT ![p] = NoSweep]

(***************************************************************************)
(* A caller invokes upsert_main_agent_record directly.                     *)
(***************************************************************************)
CallUpsert(p, g) ==
    /\ pc[p] = "idle"
    /\ clock < MaxClock
    /\ clock' = clock + 1
    /\ \E a \in FindChoices(p, g) :
          /\ Upsert(p, g, a, clock + 1)
          /\ result' = [result EXCEPT ![p] =
                Returned("upsert", UpsertAgentId(p, g, a, clock + 1))]
    /\ ForgetCalls(p)
    /\ UNCHANGED <<gateways, committed, nextToken, registered, remoteToken,
                   pc, cur>>
    /\ UNCHANGED <<dispatchVars, cleanupVars>>

(***************************************************************************)
(* ensure_main_agent: reconcile, then provision with notify=True.          *)
(***************************************************************************)
ProvisionActions == {"provision", "reprovision"}

(* The arguments ensure_main_agent passes on (lines 316-322). *)
EnsureProvisionArgs_DefaultAction(action) ==
    [action |-> "provision", notify |-> TRUE]

EnsureProvisionArgs(action) == [action |-> action, notify |-> TRUE]

EnsureMainAgent(p, g, action) ==
    /\ pc[p] = "idle"
    /\ clock < MaxClock
    /\ clock' = clock + 1
    /\ \E a \in FindChoices(p, g) :
          /\ Upsert(p, g, a, clock + 1)
          /\ cur' = [cur EXCEPT ![p] =
                [op |-> "ensure", gw |-> g,
                 agent |-> UpsertAgentId(p, g, a, clock + 1),
                 action |-> EnsureProvisionArgs(action).action,
                 notify |-> EnsureProvisionArgs(action).notify,
                 queue |-> <<>>, given |-> action, sync |-> NoCur.sync,
                 list |-> <<>>, prior |-> <<>>]]
    /\ pc' = [pc EXCEPT ![p] = "prov_local"]
    /\ result' = [result EXCEPT ![p] = NoResult]
    /\ ForgetCalls(p)
    /\ UNCHANGED <<gateways, committed, nextToken, registered, remoteToken>>
    /\ UNCHANGED <<dispatchVars, cleanupVars>>

(***************************************************************************)
(* provision_main_agent_record, lines 230-242: rotate the credential,      *)
(* stamp the request, commit and refresh; return early without a URL.      *)
(* failAt names the local step that raises ("none": all succeed).  None of *)
(* these steps is inside the try block, so what they raise leaves the      *)
(* method and the handler that called it.                                  *)
(***************************************************************************)
LocalSteps == {"token", "commit", "refresh"}

RemoteSteps == {"provision", "ensure_session", "send_message"}

LogEntry(call, token, session_key, deliver) ==
    [call |-> call, token |-> token, session_key |-> session_key,
     deliver |-> deliver]

CommitEntry == LogEntry("commit", 0, <<>>, FALSE)

RotatedRow_HashOnlyIfAbsent(row, raw_token, action, now) ==
    [row EXCEPT !.agent_token_hash =
                    IF @ = NoHash THEN HashAgentToken(raw_token) ELSE @,
                !.provision_requested_at = now,
                !.provision_action = action,
                !.updated_at = now,
                !.heartbeat_config =
                    IF @ = None THEN DefaultHeartbeatConfig ELSE @]

RotatedRow_StoresRaw(row, raw_token, action, now) ==
    [row EXCEPT !.agent_token_hash = raw_token,
                !.provision_requested_at = now,
                !.provision_action = action,
                !.updated_at = now,
                !.heartbeat_config =
                    IF @ = None THEN DefaultHeartbeatConfig ELSE @]

RotatedRow(row, raw_token, action, now) ==
    [row EXCEPT !.agent_token_hash = HashAgentToken(raw_token),
                !.provision_requested_at = now,
                !.provision_action = action,
                !.updated_at = now,
                !.heartbeat_config =
                    IF @ = None THEN DefaultHeartbeatConfig ELSE @]

AfterLocalPc(gateway) == IF gateway.url = "" THEN "prov_return" ELSE "prov_remote"

(***************************************************************************)
(* session.add(agent); await session.commit(): the staged rows of the      *)
(* session become the committed ones.                                      *)
(***************************************************************************)
SessionCommit_Deferred(base, staged) ==
    [committed |-> base, pending |-> staged]

SessionCommit(base, staged) ==
    [committed |-> Overlay(base, staged), pending |-> EmptyRows]

(* The except clauses of lines 277-299: OpenClawGatewayError, then         *)
(* (OSError, RuntimeError, ValueError), then Exception.                    *)
ProvisionCatches_NoFallback(kind) ==
    \/ kind = "gateway"
    \/ kind = "local"

ProvisionCatches(kind) ==
    \/ kind = "gateway"
    \/ kind = "local"
    \/ kind = "other"

(* The steps the try block of lines 243-270 encloses. *)
InsideTry_WholeBody(step) == TRUE

InsideTry(step) == step \in RemoteSteps

LocalFailureKind(failAt) == IF failAt = "token" THEN "local" ELSE "other"

ProvLocal(p, failAt) ==
    /\ pc[p] = "prov_local"
    /\ nextToken' = nextToken + 1
    /\ LET c == cur[p]
           now == clock
           raw_token == nextToken
           row == RotatedRow(View(p)[c.agent], raw_token, c.action, now)
           staged == Overlay(pending[p], c.agent :> row)
           kind == LocalFailureKind(failAt)
           swallowed == InsideTry(failAt) /\ ProvisionCatches(kind)
           started == [NoProv EXCEPT !.status = "running", !.caller = Handler(c),
                         !.gw = c.gw, !.agent = c.agent, !.token = raw_token,
                         !.at = now, !.action = c.action, !.notify = c.notify,
                         !.url = gateways[c.gw].url, !.given = c.given,
                         !.hashBefore = View(p)[c.agent].agent_token_hash,
                         !.log = IF failAt \in {"token", "commit"} THEN <<>>
                                 ELSE <<CommitEntry>>]
           failed == [started EXCEPT !.failedStep = failAt, !.failedKind = kind]
       IN  /\ sweep' = IF c.op = "sweep"
                        THEN [sweep EXCEPT ![p].provisioned = TRUE]
                        ELSE sweep
           /\ CASE failAt = "token" -> UNCHANGED <<committed, pending>>
                [] failAt = "commit" ->
                    /\ pending' = [pending EXCEPT ![p] = staged]
                    /\ UNCHANGED committed
                [] OTHER ->
                    /\ committed' = SessionCommit(committed, staged).committed
                    /\ pending' = [pending EXCEPT ![p] =
                            SessionCommit(committed, staged).pending]
           /\ IF failAt = "none"
              THEN /\ prov' = [prov EXCEPT ![p] = started]
                   /\ pc' = [pc EXCEPT ![p] = AfterLocalPc(gateways[c.gw])]
                   /\ UNCHANGED <<result, cur>>
              ELSE IF swallowed
              THEN /\ prov' = [prov EXCEPT ![p] = failed]
                   /\ pc' = [pc EXCEPT ![p] = "prov_return"]
                   /\ UNCHANGED <<result, cur>>
              ELSE /\ prov' = [prov EXCEPT ![p] =
                         [failed EXCEPT !.status = "raised"]]
                   /\ pc' = [pc EXCEPT ![p] = "idle"]
                   /\ result' = [result EXCEPT ![p] = Raised(Handler(c), kind)]
                   /\ cur' = [cur EXCEPT ![p] = NoCur]
    /\ UNCHANGED <<gateways, nextId, clock, registered, remoteToken,
                   lastUpsert, prevUpsert>>
    /\ UNCHANGED <<dispatchVars, cleanupVars>>

(***************************************************************************)
(* provision_main_agent_record, lines 243-300: the remote calls inside the *)
(* try block.  Each except clause logs and falls through to                *)
(* "return agent".  A provision call that succeeds                         *)
(* registers the main agent with the remote gateway and hands it the raw   *)
(* token.                                                                  *)
(***************************************************************************)
NextRemotePc_AlwaysNotify(at, notify) ==
    CASE at = "prov_remote" -> "prov_session"
      [] at = "prov_session" -> "prov_notify"
      [] OTHER -> "prov_return"

(* The position after a remote call that succeeded. *)
NextRemotePc(at, notify) ==
    CASE at = "prov_remote" -> "prov_session"
      [] at = "prov_session" -> IF notify THEN "prov_notify" ELSE "prov_return"
      [] OTHER -> "prov_return"

RemoteCallAt_SessionFirst(at, token, session_key) ==
    CASE at = "prov_remote" -> LogEntry("ensure_session", 0, session_key, FALSE)
      [] at = "prov_session" -> LogEntry("provision", token, session_key, FALSE)
      [] OTHER -> LogEntry("send_message", 0, session_key, TRUE)

(* The remote call made at a position. *)
RemoteCallAt(at, token, session_key) ==
    CASE at = "prov_remote" -> LogEntry("provision", token, session_key, FALSE)
      [] at = "prov_session" -> LogEntry("ensure_session", 0, session_key, FALSE)
      [] OTHER -> LogEntry("send_message", 0, session_key, TRUE)

RemoteStep(p, at, outcome) ==
    /\ pc[p] = at
    /\ LET c == cur[p]
           call == RemoteCallAt(at, prov[p].token, SessionKey(gateways[c.gw]))
           logged == [prov[p] EXCEPT !.log = Append(@, call)]
       IN  /\ remoteToken' =
                 IF outcome = "ok" /\ call.call = "provision"
                 THEN [remoteToken EXCEPT ![c.gw] = call.token]
                 ELSE remoteToken
           /\ registered' =
                 IF outcome = "ok" /\ call.call = "provision"
                 THEN [registered EXCEPT ![c.gw] = TRUE]
                 ELSE registered
           /\ IF outcome = "ok"
              THEN /\ prov' = [prov EXCEPT ![p] = logged]
                   /\ pc' = [pc EXCEPT ![p] = NextRemotePc(at, c.notify)]
                   /\ UNCHANGED <<result, cur>>
              ELSE IF InsideTry(call.call) /\ ProvisionCatches(outcome)
              THEN /\ prov' = [prov EXCEPT ![p] =
                         [logged EXCEPT !.failedStep = call.call,
                                        !.failedKind = outcome]]
                   /\ pc' = [pc EXCEPT ![p] = "prov_return"]
                   /\ UNCHANGED <<result, cur>>
              ELSE /\ prov' = [prov EXCEPT ![p] =
                         [logged EXCEPT !.failedStep = call.call,
                                        !.failedKind = outcome,
                                        !.status = "raised"]]
                   /\ pc' = [pc EXCEPT ![p] = "idle"]
                   /\ result' = [result EXCEPT ![p] = Raised(Handler(c), outcome)]
                   /\ cur' = [cur EXCEPT ![p] = NoCur]
    /\ UNCHANGED <<gateways, committed, pending, nextId, nextToken, clock,
                   sweep, lastUpsert, prevUpsert>>
    /\ UNCHANGED <<dispatchVars, cleanupVars>>

ProvisionMainAgent(p, outcome) == RemoteStep(p, "prov_remote", outcome)

EnsureSession(p, outcome) == RemoteStep(p, "prov_session", outcome)

SendMessage(p, outcome) == RemoteStep(p, "prov_notify", outcome)

(***************************************************************************)
(* "return agent" (lines 242 and 300): back in ensure_main_agent, which    *)
(* returns the agent, or in the loop of ensure_gateway_agents_exist.       *)
(***************************************************************************)
ProvReturn(p) ==
    /\ pc[p] = "prov_return"
    /\ prov' = [prov EXCEPT ![p].status = "returned"]
    /\ IF cur[p].op = "ensure"
       THEN /\ pc' = [pc EXCEPT ![p] = "idle"]
            /\ result' = [result EXCEPT ![p] = Returned("ensure", cur[p].agent)]
            /\ cur' = [cur EXCEPT ![p] = NoCur]
       ELSE /\ pc' = [pc EXCEPT ![p] = "sweep_next"]
            /\ cur' = [cur EXCEPT ![p].queue = Tail(@)]
            /\ UNCHANGED result
    /\ UNCHANGED <<gateways, committed, pending, nextId, nextToken, clock,
                   registered, remoteToken, sweep, lastUpsert, prevUpsert>>
    /\ UNCHANGED <<dispatchVars, cleanupVars>>

(***************************************************************************)
(* ensure_gateway_agents_exist: for each gateway of the list in order,     *)
(* reconcile, check the roster, and provision with notify=False when       *)
(* needed.                                                                 *)
(***************************************************************************)
SweepLists == {<<1>>, <<1, 2>>, <<2, 1>>}

(* The arguments the sweep passes to provision_main_agent_record. *)
SweepProvisionArgs_Notify == [action |-> "provision", notify |-> TRUE]

SweepProvisionArgs == [action |-> "provision", notify |-> FALSE]

NeedsProvision_IgnoresHash(gateway_changed, agent, has_gateway_entry) ==
    \/ gateway_changed
    \/ ~has_gateway_entry

NeedsProvision(gateway_changed, agent, has_gateway_entry) ==
    \/ gateway_changed
    \/ ~(agent.agent_token_hash # NoHash)
    \/ ~has_gateway_entry

SweepStart(p, list) ==
    /\ pc[p] = "idle"
    /\ cur' = [cur EXCEPT ![p] =
          [NoCur EXCEPT !.op = "sweep", !.queue = list, !.list = list,
                        !.prior = result[p].swept]]
    /\ pc' = [pc EXCEPT ![p] = "sweep_next"]
    /\ result' = [result EXCEPT ![p] = NoResult]
    /\ ForgetCalls(p)
    /\ UNCHANGED <<gateways, committed, pending, nextId, nextToken, registered,
                   remoteToken, lastUpsert, prevUpsert>>
    /\ UNCHANGED <<dispatchVars, cleanupVars>>

EnsureGatewayAgentsExist(p, list) ==
    /\ clock < MaxClock
    /\ clock' = clock + 1
    /\ SweepStart(p, list)

(* Loop head: return when the list is exhausted (to the caller, or into    *)
(* sync_templates), else reconcile the head of the list.                   *)
SweepNext(p) ==
    /\ pc[p] = "sweep_next"
    /\ IF cur[p].queue = <<>>
       THEN /\ IF Handler(cur[p]) = "sync"
               THEN /\ pc' = [pc EXCEPT ![p] = "sync_call"]
                    /\ UNCHANGED <<result, cur>>
               ELSE /\ pc' = [pc EXCEPT ![p] = "idle"]
                    /\ result' = [result EXCEPT ![p] =
                          [Returned("sweep", NoId) EXCEPT !.swept = cur[p].list]]
                    /\ cur' = [cur EXCEPT ![p] = NoCur]
            /\ UNCHANGED <<pending, nextId, prov, sweep, lastUpsert, prevUpsert>>
       ELSE LET g == Head(cur[p].queue)
            IN  \E a \in FindChoices(p, g) :
                  LET r == UpsertResult(p, g, a, clock)
                      id == UpsertAgentId(p, g, a, clock)
                  IN  /\ Upsert(p, g, a, clock)
                      /\ cur' = [cur EXCEPT ![p].gw = g, ![p].agent = id]
                      /\ sweep' = [sweep EXCEPT ![p] =
                            [NoSweep EXCEPT !.gw = g, !.agent = id,
                               !.changed = r.changed,
                               !.hasHash = (r.agent.agent_token_hash # NoHash),
                               !.hashBefore = r.agent.agent_token_hash,
                               !.repeat = \E i \in 1..Len(cur[p].prior) :
                                              cur[p].prior[i] = g]]
                      /\ prov' = [prov EXCEPT ![p] = NoProv]
                      /\ pc' = [pc EXCEPT ![p] = "sweep_roster"]
                      /\ UNCHANGED result
    /\ UNCHANGED <<gateways, committed, nextToken, clock, registered,
                   remoteToken>>
    /\ UNCHANGED <<dispatchVars, cleanupVars>>

(* The roster check and the decision to provision. *)
SweepRoster(p, outcome) ==
    /\ pc[p] = "sweep_roster"
    /\ LET c == cur[p]
           gateway == gateways[c.gw]
       IN  \E payload \in RemotePayloads(gateway, registered[c.gw]) :
             LET has == GatewayHasMainAgentEntry(gateway, outcome, payload)
                 needs == NeedsProvision(sweep[p].changed, View(p)[c.agent],
                                         has.value)
                 seen == [sweep[p] EXCEPT !.called = has.called,
                            !.roster = IF has.called THEN outcome ELSE "none"]
             IN  IF has.raised # "none"
                 THEN /\ sweep' = [sweep EXCEPT ![p] = seen]
                      /\ pc' = [pc EXCEPT ![p] = "idle"]
                      /\ result' = [result EXCEPT ![p] =
                            Raised(Handler(c), has.raised)]
                      /\ cur' = [cur EXCEPT ![p] = NoCur]
                 ELSE /\ sweep' = [sweep EXCEPT ![p] =
                            [seen EXCEPT !.hasEntry = has.value,
                                         !.decided = TRUE]]
                      /\ UNCHANGED result
                      /\ IF needs
                         THEN /\ cur' = [cur EXCEPT
                                    ![p].action = SweepProvisionArgs.action,
                                    ![p].notify = SweepProvisionArgs.notify]
                              /\ pc' = [pc EXCEPT ![p] = "prov_local"]
                         ELSE /\ cur' = [cur EXCEPT ![p].queue = Tail(@)]
                              /\ pc' = [pc EXCEPT ![p] = "sweep_next"]
    /\ UNCHANGED <<gateways, committed, pending, nextId, nextToken, clock,
                   registered, remoteToken, prov, lastUpsert, prevUpsert>>
    /\ UNCHANGED <<dispatchVars, cleanupVars>>

(***************************************************************************)
(* The callers and the world around the service: the request that owns the *)
(* session commits or rolls back; an administrator renames a gateway or    *)
(* changes its URL; the remote gateway loses or regains the roster entry.  *)
(***************************************************************************)
AllIdle == \A p \in Procs : pc[p] = "idle"

ForgetUpserts ==
    /\ lastUpsert' = [p \in Procs |-> NoCall]
    /\ prevUpsert' = [p \in Procs |-> NoCall]

ForgetAll ==
    /\ ForgetUpserts
    /\ prov' = [p \in Procs |-> NoProv]
    /\ sweep' = [p \in Procs |-> NoSweep]
    /\ result' = [p \in Procs |-> NoResult]

CallerCommit(p) ==
    /\ pc[p] = "idle"
    /\ pending[p] # EmptyRows
    /\ committed' = SessionCommit(committed, pending[p]).committed
    /\ pending' = [pending EXCEPT ![p] = SessionCommit(committed, @).pending]
    /\ UNCHANGED <<gateways, nextId, nextToken, clock, registered, remoteToken,
                   pc, cur, prov, sweep, lastUpsert, prevUpsert, result>>
    /\ UNCHANGED <<dispatchVars, cleanupVars>>

CallerRollback(p) ==
    /\ pc[p] = "idle"
    /\ pending[p] # EmptyRows
    /\ pending' = [pending EXCEPT ![p] = EmptyRows]
    /\ ForgetAll
    /\ UNCHANGED <<gateways, committed, nextId, nextToken, clock, registered,
                   remoteToken, pc, cur>>
    /\ UNCHANGED <<dispatchVars, cleanupVars>>

OtherName(name) == IF name = "Alpha" THEN "Beta" ELSE "Alpha"

OtherUrl(url) == IF url = "" THEN "ws://gateway" ELSE ""

RenameGateway(g) ==
    /\ AllIdle
    /\ clock < MaxClock
    /\ clock' = clock + 1
    /\ gateways' = [gateways EXCEPT ![g].name = OtherName(@)]
    /\ ForgetAll
    /\ UNCHANGED <<committed, pending, nextId, nextToken, registered,
                   remoteToken, pc, cur>>
    /\ UNCHANGED <<dispatchVars, cleanupVars>>

SetGatewayUrl(g) ==
    /\ AllIdle
    /\ clock < MaxClock
    /\ clock' = clock + 1
    /\ gateways' = [gateways EXCEPT ![g].url = OtherUrl(@)]
    /\ ForgetAll
    /\ UNCHANGED <<committed, pending, nextId, nextToken, registered,
                   remoteToken, pc, cur>>
    /\ UNCHANGED <<dispatchVars, cleanupVars>>

RosterChange(g) ==
    /\ AllIdle
    /\ clock < MaxClock
    /\ clock' = clock + 1
    /\ registered' = [registered EXCEPT ![g] = ~@]
    /\ ForgetAll
    /\ UNCHANGED <<gateways, committed, pending, nextId, nextToken,
                   remoteToken, pc, cur>>
    /\ UNCHANGED <<dispatchVars, cleanupVars>>

(***************************************************************************)
(* Requests served one at a time.                                          *)
(***************************************************************************)
Next ==
    \/ \E p \in Procs, g \in Gateways : CallUpsert(p, g)
    \/ \E p \in Procs, g \in Gateways, action \in ProvisionActions :
          EnsureMainAgent(p, g, action)
    \/ \E p \in Procs, list \in SweepLists : EnsureGatewayAgentsExist(p, list)
    \/ \E p \in Procs : SweepNext(p)
    \/ \E p \in Procs, outcome \in Outcomes : SweepRoster(p, outcome)
    \/ \E p \in Procs, failAt \in {"none"} \cup LocalSteps : ProvLocal(p, failAt)
    \/ \E p \in Procs, outcome \in Outcomes : ProvisionMainAgent(p, outcome)
    \/ \E p \in Procs, outcome \in Outcomes : EnsureSession(p, outcome)
    \/ \E p \in Procs, outcome \in Outcomes : SendMessage(p, outcome)
    \/ \E p \in Procs : ProvReturn(p)
    \/ \E p \in Procs : CallerCommit(p)
    \/ \E p \in Procs : CallerRollback(p)
    \/ \E g \in Gateways : RenameGateway(g)
    \/ \E g \in Gateways : SetGatewayUrl(g)
    \/ \E g \in Gateways : RosterChange(g)

Spec == Init /\ [][Next]_vars
(***************************************************************************)
(* BoardOnboardingMessagingService.  The send of the message ends "ok" or  *)
(* raises: "gateway" is OpenClawGatewayError, "timeout" is TimeoutError,   *)
(* "other" any other Exception, "base" a BaseException that is none.       *)
(***************************************************************************)
MaxDispatches == 2      \* dispatch calls in one behaviour

SendOutcomes == {"ok", "gateway", "timeout", "other", "base"}

Prompts == {"prompt"}

Answers == {"answer"}

NoException == [exception |-> "none", operation |-> "none", cause |-> "none"]

(* map_gateway_error_to_http_exception(operation, exc) *)
MapGatewayErrorToHttpException(operation, exc) ==
    [exception |-> "HTTPException", operation |-> operation, cause |-> exc]

(* An exception that reaches the caller as it was raised. *)
Unchanged(exc) == [exception |-> exc, operation |-> "none", cause |-> "none"]

(* require_gateway_config_for_board: the board's gateway and its client   *)
(* configuration, or an error when the board has no gateway or the        *)
(* gateway has no URL.                                                    *)
RequireGatewayConfigForBoard(board) ==
    IF BoardGateway(board) = NoId THEN [raised |-> TRUE, gateway |-> NoRow]
    ELSE IF gateways[BoardGateway(board)].url = ""
    THEN [raised |-> TRUE, gateway |-> NoRow]
    ELSE [raised |-> FALSE, gateway |-> gateways[BoardGateway(board)]]

(* The first except clause: (OpenClawGatewayError, TimeoutError). *)
DispatchTranslates_GatewayOnly(kind) == kind = "gateway"

DispatchTranslates(kind) == kind \in {"gateway", "timeout"}

(* try / except of lines 36-64 and 90-120: what leaves the method when    *)
(* the send ended with outcome.                                           *)
DispatchRaises(operation, outcome) ==
    IF outcome = "ok" THEN NoException
    ELSE IF DispatchTranslates(outcome)
    THEN MapGatewayErrorToHttpException(operation, outcome)
    ELSE Unchanged(outcome)

GatewayMessage(session_key, message) ==
    [session_key |-> session_key, agent_name |-> "Gateway Agent",
     message |-> message, deliver |-> FALSE]

Dispatch(op, operation, board, session_key, message, outcome) ==
    /\ dispatches < MaxDispatches
    /\ dispatches' = dispatches + 1
    /\ IF RequireGatewayConfigForBoard(board).raised
       THEN /\ sent' = NoMessage
            /\ dispatched' =
                  [op |-> op, board |-> board, send |-> "not_sent",
                   outcome |-> "raised", exc |-> Unchanged("precondition"),
                   value |-> <<>>]
       ELSE /\ sent' = GatewayMessage(session_key, message)
            /\ dispatched' =
                  [op |-> op, board |-> board, send |-> outcome,
                   outcome |-> IF DispatchRaises(operation, outcome) = NoException
                               THEN "returned" ELSE "raised",
                   exc |-> DispatchRaises(operation, outcome),
                   value |-> IF DispatchRaises(operation, outcome) = NoException
                                /\ op = "start"
                             THEN session_key ELSE <<>>]
    /\ UNCHANGED <<onboarding, lifecycleVars, cleanupVars>>

StartSessionKey_Stored(board) ==
    IF RequireGatewayConfigForBoard(board).raised THEN <<>>
    ELSE onboarding[board].session_key

StartSessionKey(board) ==
    IF RequireGatewayConfigForBoard(board).raised THEN <<>>
    ELSE SessionKey(RequireGatewayConfigForBoard(board).gateway)

DispatchStartPrompt(board, prompt, outcome) ==
    Dispatch("start", "ONBOARDING_START_DISPATCH", board,
             StartSessionKey(board), prompt, outcome)

DispatchAnswer_Rederived(board, answer_text, outcome) ==
    Dispatch("answer", "ONBOARDING_ANSWER_DISPATCH", board,
             StartSessionKey(board), answer_text, outcome)

DispatchAnswer(board, answer_text, outcome) ==
    Dispatch("answer", "ONBOARDING_ANSWER_DISPATCH", board,
             onboarding[board].session_key, answer_text, outcome)

StoredKeys ==
    { <<"agent:mc-gateway-", "1", ":main">>,
      <<"agent:mc-gateway-", "2", ":main">> }

InitDispatching ==
    /\ \E urls \in [Gateways -> {"", "ws://gateway"}] :
          InitLifecycle(SeqProcs, 1 :> BoardLead, urls)
    /\ \E stored \in [Boards -> [session_key : StoredKeys]] :
          InitDispatch(stored)
    /\ InitCleanup(NoTables)

NextDispatch ==
    \/ \E board \in Boards, prompt \in Prompts, outcome \in SendOutcomes :
          DispatchStartPrompt(board, prompt, outcome)
    \/ \E board \in Boards, answer \in Answers, outcome \in SendOutcomes :
          DispatchAnswer(board, answer, outcome)

SpecDispatch == InitDispatching /\ [][NextDispatch]_vars

(***************************************************************************)
(* clear_agent_foreign_keys: four bulk updates in the caller's             *)
(* transaction.  Each operator is one crud.update_where call.              *)
(***************************************************************************)
NumTasks == 2           \* task rows in the database

AgentIds == {1, 2}

TaskIds == 1..NumTasks

EventIds == {1, 2}

ApprovalIds == {1}

(* now = utcnow() *)
CleanupNow == 9

ResetInProgressTasks_KeepsTimestamp(tasks, agent_id, now) ==
    [t \in DOMAIN tasks |->
        IF tasks[t].assigned_agent_id = agent_id /\ tasks[t].status = "in_progress"
        THEN [tasks[t] EXCEPT !.assigned_agent_id = NoId, !.status = "inbox",
                              !.updated_at = now]
        ELSE tasks[t]]

ResetInProgressTasks(tasks, agent_id, now) ==
    [t \in DOMAIN tasks |->
        IF tasks[t].assigned_agent_id = agent_id /\ tasks[t].status = "in_progress"
        THEN [tasks[t] EXCEPT !.assigned_agent_id = NoId, !.status = "inbox",
                              !.in_progress_at = NoTime, !.updated_at = now]
        ELSE tasks[t]]

UnassignOtherTasks_AnyAgent(tasks, agent_id, now) ==
    [t \in DOMAIN tasks |->
        IF tasks[t].assigned_agent_id # NoId /\ tasks[t].status # "in_progress"
        THEN [tasks[t] EXCEPT !.assigned_agent_id = NoId, !.updated_at = now]
        ELSE tasks[t]]

UnassignOtherTasks(tasks, agent_id, now) ==
    [t \in DOMAIN tasks |->
        IF tasks[t].assigned_agent_id = agent_id /\ tasks[t].status # "in_progress"
        THEN [tasks[t] EXCEPT !.assigned_agent_id = NoId, !.updated_at = now]
        ELSE tasks[t]]

ClearAgentReference(rows, agent_id) ==
    [r \in DOMAIN rows |->
        IF rows[r].agent_id = agent_id THEN [rows[r] EXCEPT !.agent_id = NoId]
        ELSE rows[r]]

(* commit=False on each of the four calls *)
CleanupCommits == FALSE

ClearedTables(t, agent_id, now) ==
    [ tasks |-> UnassignOtherTasks(ResetInProgressTasks(t.tasks, agent_id, now),
                                   agent_id, now),
      events |-> ClearAgentReference(t.events, agent_id),
      approvals |-> ClearAgentReference(t.approvals, agent_id) ]

ClearAgentForeignKeys(agent_id) ==
    /\ tables' = ClearedTables(tables, agent_id, CleanupNow)
    /\ durable' = IF CleanupCommits THEN tables' ELSE durable
    /\ cleared' = [agent_id |-> agent_id, before |-> tables]
    /\ UNCHANGED <<lifecycleVars, dispatchVars>>

(* The caller commits its transaction. *)
CleanupCallerCommit ==
    /\ durable # tables
    /\ durable' = tables
    /\ UNCHANGED <<tables, cleared, lifecycleVars, dispatchVars>>

TaskRows ==
    [ assigned_agent_id : {NoId} \cup AgentIds,
      status : {"inbox", "done"},
      in_progress_at : {NoTime},
      updated_at : {NoTime},
      title : {"a task"} ]
    \cup
    [ assigned_agent_id : {NoId} \cup AgentIds,
      status : {"in_progress", "done"},
      in_progress_at : {1},
      updated_at : {NoTime},
      title : {"a task"} ]

ReferenceRows == [agent_id : {NoId} \cup AgentIds, detail : {"a record"}]

InitCleaning ==
    /\ InitLifecycle(SeqProcs, 1 :> BoardLead, DefaultUrls)
    /\ InitDispatch(DefaultOnboarding)
    /\ \E tasks \in [TaskIds -> TaskRows],
          events \in [EventIds -> ReferenceRows],
          approvals \in [ApprovalIds -> ReferenceRows] :
          InitCleanup([tasks |-> tasks, events |-> events,
                       approvals |-> approvals])

NextCleanup ==
    \/ \E agent_id \in AgentIds : ClearAgentForeignKeys(agent_id)
    \/ CleanupCallerCommit

SpecCleanup == InitCleaning /\ [][NextCleanup]_vars

(***************************************************************************)
(* Reconciliation alone, over main-agent rows written by earlier versions  *)
(* or other services: gateway 2 starts with a main agent whose corrected   *)
(* fields hold any mix of right and wrong values.                          *)
(***************************************************************************)
LegacyMainAgents ==
    [ name : {<<"Alpha", "Gateway Agent">>, <<"Old name">>},
      status : {"", "online"},
      board_id : {NoBoard},
      gateway_id : {2},
      is_board_lead : BOOLEAN,
      openclaw_session_id : {<<"agent:mc-gateway-", "2", ":main">>, <<"stale">>},
      heartbeat_config : {None, "custom_heartbeat"},
      identity_profile : {None, "custom_profile"},
      agent_token_hash : {NoHash, HashAgentToken(1)},
      provision_requested_at : {NoTime},
      provision_action : {None},
      updated_at : {NoTime} ]

InitReconcile ==
    /\ \E legacy \in LegacyMainAgents :
          InitLifecycle(SeqProcs, (1 :> BoardLead) @@ (2 :> legacy), DefaultUrls)
    /\ InitDispatch(DefaultOnboarding)
    /\ InitCleanup(NoTables)

NextReconcile ==
    \/ \E p \in Procs, g \in Gateways : CallUpsert(p, g)
    \/ \E p \in Procs : CallerCommit(p)
    \/ \E p \in Procs : CallerRollback(p)
    \/ \E g \in Gateways : RenameGateway(g)

SpecReconcile == InitReconcile /\ [][NextReconcile]_vars

(***************************************************************************)
(* sync_templates (lines 377-404): the sweep over [gateway], then          *)
(* sync_gateway_templates with the options built from the query and the    *)
(* acting user; its result is returned, and nothing is caught.             *)
(***************************************************************************)
SyncQueries ==
    { [ include_main |-> TRUE, reset_sessions |-> FALSE, rotate_tokens |-> TRUE,
        force_bootstrap |-> FALSE, board_id |-> NoBoard ],
      [ include_main |-> FALSE, reset_sessions |-> TRUE, rotate_tokens |-> FALSE,
        force_bootstrap |-> TRUE, board_id |-> 1 ] }

SyncUsers == {"alice"}

SyncResults == {"synced", "synced_with_errors"}

GatewayTemplateSyncOptions(user, query) ==
    [ user |-> user,
      include_main |-> query.include_main,
      reset_sessions |-> query.reset_sessions,
      rotate_tokens |-> query.rotate_tokens,
      force_bootstrap |-> query.force_bootstrap,
      board_id |-> query.board_id ]

SyncTemplates(p, g, user, query) ==
    /\ pc[p] = "idle"
    /\ clock < MaxClock
    /\ clock' = clock + 1
    /\ cur' = [cur EXCEPT ![p] =
          [NoCur EXCEPT !.op = "sweep", !.queue = <<g>>,
                        !.sync = [user |-> user, query |-> query, gateway |-> g]]]
    /\ pc' = [pc EXCEPT ![p] = "sweep_next"]
    /\ result' = [result EXCEPT ![p] = NoResult]
    /\ ForgetCalls(p)
    /\ UNCHANGED <<gateways, committed, pending, nextId, nextToken, registered,
                   remoteToken, lastUpsert, prevUpsert>>
    /\ UNCHANGED <<dispatchVars, cleanupVars>>

(* result = await sync_gateway_templates(...); return result *)
SyncGatewayTemplates(p, outcome, value) ==
    /\ pc[p] = "sync_call"
    /\ LET c == cur[p]
           call == [ made |-> TRUE, gateway |-> c.sync.gateway,
                     options |-> GatewayTemplateSyncOptions(c.sync.user,
                                                            c.sync.query),
                     request |-> c.sync, swept |-> sweep[p].gw ]
       IN  result' = [result EXCEPT ![p] =
               IF outcome = "ok"
               THEN [Returned("sync", NoId) EXCEPT !.call = call, !.value = value]
               ELSE [Raised("sync", outcome) EXCEPT !.call = call]]
    /\ pc' = [pc EXCEPT ![p] = "idle"]
    /\ cur' = [cur EXCEPT ![p] = NoCur]
    /\ UNCHANGED <<gateways, committed, pending, nextId, nextToken, clock,
                   registered, remoteToken, prov, sweep, lastUpsert, prevUpsert>>
    /\ UNCHANGED <<dispatchVars, cleanupVars>>

NextSync ==
    \/ \E p \in Procs, g \in Gateways, user \in SyncUsers, query \in SyncQueries :
          SyncTemplates(p, g, user, query)
    \/ \E p \in Procs : SweepNext(p)
    \/ \E p \in Procs, outcome \in Outcomes : SweepRoster(p, outcome)
    \/ \E p \in Procs, failAt \in {"none"} \cup LocalSteps : ProvLocal(p, failAt)
    \/ \E p \in Procs, outcome \in Outcomes : ProvisionMainAgent(p, outcome)
    \/ \E p \in Procs, outcome \in Outcomes : EnsureSession(p, outcome)
    \/ \E p \in Procs : ProvReturn(p)
    \/ \E p \in Procs, outcome \in Outcomes, value \in SyncResults :
          SyncGatewayTemplates(p, outcome, value)
    \/ \E g \in Gateways : RosterChange(g)

SpecSync == Init /\ [][NextSync]_vars

(***************************************************************************)
(* The lifecycle and the onboarding dispatch side by side: a main agent is *)
(* reconciled and provisioned, the gateway is renamed or gets another URL, *)
(* and the start prompt of a board of that gateway is dispatched.  The     *)
(* onboarding sessions start with a key stored for another gateway.        *)
(***************************************************************************)
StaleOnboarding ==
    [b \in Boards |-> [session_key |-> <<"agent:mc-gateway-", "2", ":main">>]]

InitIdentity ==
    /\ InitLifecycle(SeqProcs, 1 :> BoardLead, DefaultUrls)
    /\ InitDispatch(StaleOnboarding)
    /\ InitCleanup(NoTables)

NextIdentity ==
    \/ \E p \in Procs, g \in Gateways : EnsureMainAgent(p, g, "provision")
    \/ \E p \in Procs : ProvLocal(p, "none")
    \/ \E p \in Procs : ProvisionMainAgent(p, "ok")
    \/ \E p \in Procs, outcome \in {"ok", "gateway"} : EnsureSession(p, outcome)
    \/ \E p \in Procs : SendMessage(p, "ok")
    \/ \E p \in Procs : ProvReturn(p)
    \/ \E g \in Gateways : RenameGateway(g)
    \/ \E g \in Gateways : SetGatewayUrl(g)
    \/ \E board \in Boards, prompt \in Prompts, outcome \in {"ok", "gateway"} :
          DispatchStartPrompt(board, prompt, outcome)

SpecIdentity == InitIdentity /\ [][NextIdentity]_vars

(***************************************************************************)
(* Two requests served at the same time, each with its own database        *)
(* session: their handlers interleave at every await.  The service takes   *)
(* no lock and the Agent table carries no constraint on (gateway_id,       *)
(* board_id).                                                              *)
(***************************************************************************)
ConcProcs == {1, 2}

InitConcurrent ==
    /\ InitLifecycle(ConcProcs, 1 :> BoardLead, DefaultUrls)
    /\ InitDispatch(DefaultOnboarding)
    /\ InitCleanup(NoTables)

NextConcurrent ==
    \/ \E p \in Procs, g \in Gateways : EnsureMainAgent(p, g, "provision")
    \/ \E p \in Procs : EnsureGatewayAgentsExist(p, <<1>>)
    \/ \E p \in Procs : SweepNext(p)
    \/ \E p \in Procs, outcome \in {"ok", "gateway"} : SweepRoster(p, outcome)
    \/ \E p \in Procs : ProvLocal(p, "none")
    \/ \E p \in Procs, outcome \in {"ok", "gateway"} :
          ProvisionMainAgent(p, outcome)
    \/ \E p \in Procs : EnsureSession(p, "ok")
    \/ \E p \in Procs : SendMessage(p, "ok")
    \/ \E p \in Procs : ProvReturn(p)

SpecConcurrent == InitConcurrent /\ [][NextConcurrent]_vars

(***************************************************************************)
(* Every caller of provision_main_agent_record side by side:               *)
(* ensure_main_agent, ensure_gateway_agents_exist and sync_templates, with *)
(* every outcome of every local and remote step, while gateways gain or    *)
(* lose their URL.                                                         *)
(***************************************************************************)
NextNotify ==
    \/ \E p \in Procs, g \in Gateways, action \in ProvisionActions :
          EnsureMainAgent(p, g, action)
    \/ \E p \in Procs, list \in SweepLists : EnsureGatewayAgentsExist(p, list)
    \/ \E p \in Procs, g \in Gateways, user \in SyncUsers, query \in SyncQueries :
          SyncTemplates(p, g, user, query)
    \/ \E p \in Procs : SweepNext(p)
    \/ \E p \in Procs, outcome \in Outcomes : SweepRoster(p, outcome)
    \/ \E p \in Procs, failAt \in {"none"} \cup LocalSteps : ProvLocal(p, failAt)
    \/ \E p \in Procs, outcome \in Outcomes : ProvisionMainAgent(p, outcome)
    \/ \E p \in Procs, outcome \in Outcomes : EnsureSession(p, outcome)
    \/ \E p \in Procs, outcome \in Outcomes : SendMessage(p, outcome)
    \/ \E p \in Procs : ProvReturn(p)
    \/ \E p \in Procs, outcome \in Outcomes, value \in SyncResults :
          SyncGatewayTemplates(p, outcome, value)
    \/ \E g \in Gateways : SetGatewayUrl(g)

SpecNotify == Init /\ [][NextNotify]_vars

(***************************************************************************)
(* Sweeps over gateway 1 run again and again.  Remote calls and local      *)
(* steps may fail in any way until the clock has reached MaxClock; from    *)
(* then on every call succeeds and the clock stands still.  Nothing but a  *)
(* successful provision call changes the remote roster.  Every handler     *)
(* started runs on (each await resumes) and idle requests start the next   *)
(* sweep: weak fairness of the next-state action.                          *)
(***************************************************************************)
Calm == clock = MaxClock

HealOutcomes == IF Calm THEN {"ok"} ELSE Outcomes

HealLocalFailures == IF Calm THEN {"none"} ELSE {"none"} \cup LocalSteps

KeepSweeping(p, list) ==
    /\ clock' = IF Calm THEN clock ELSE clock + 1
    /\ SweepStart(p, list)

NextHeal ==
    \/ \E p \in Procs : KeepSweeping(p, <<1>>)
    \/ \E p \in Procs : SweepNext(p)
    \/ \E p \in Procs, outcome \in HealOutcomes : SweepRoster(p, outcome)
    \/ \E p \in Procs, failAt \in HealLocalFailures : ProvLocal(p, failAt)
    \/ \E p \in Procs, outcome \in HealOutcomes : ProvisionMainAgent(p, outcome)
    \/ \E p \in Procs, outcome \in HealOutcomes : EnsureSession(p, outcome)
    \/ \E p \in Procs : ProvReturn(p)

SpecHeal == Init /\ [][NextHeal]_vars /\ WF_vars(NextHeal)

(***************************************************************************)
(* The roster check alone (lines 207-219), over whatever agents.list may   *)
(* answer: a list or a dict holding "agents", of up to two entries; an     *)
(* entry is a str, a dict or something else; a dict's id, agentId and      *)
(* agent_id are missing, blank, another agent's id or the padded id of     *)
(* gateway 1's main agent.  The payload is fixed when the behaviour starts *)
(* and the check is called on either gateway with every outcome of the     *)
(* remote call.                                                            *)
(***************************************************************************)
Padded(text) == <<" ">> \o text \o <<" ">>

Gateway1AgentId == <<"mc-gateway-", "1">>

NotAStr == [kind |-> "int"]

RosterKeyValues ==
    { Absent, StrVal(<<" ">>), StrVal(OtherId), StrVal(Padded(Gateway1AgentId)) }

RosterEntries ==
    { Absent, NotAStr, StrVal(<<>>), StrVal(<<" ">>), StrVal(OtherId),
      StrVal(Gateway1AgentId), StrVal(Padded(Gateway1AgentId)) }
    \cup { DictEntry(id, agentId, agent_id) :
             id \in RosterKeyValues, agentId \in RosterKeyValues,
             agent_id \in RosterKeyValues }

RosterLists ==
    { <<>> } \cup { <<e>> : e \in RosterEntries }
             \cup { <<e[1], e[2]>> : e \in RosterEntries \X RosterEntries }

AnyPayloads ==
    { ListOf(items) : items \in RosterLists }
    \cup { [kind |-> "dict", agents |-> ListOf(items)] : items \in RosterLists }
    \cup { [kind |-> "dict", agents |-> Absent],
           [kind |-> "dict", agents |-> StrVal(Gateway1AgentId)],
           Absent, StrVal(Gateway1AgentId) }

RosterLocals(payload) == [op |-> "roster", payload |-> payload]

InitRoster ==
    /\ \E payload \in AnyPayloads :
          InitLifecycleWith(SeqProcs, 1 :> BoardLead, DefaultUrls,
                            RosterLocals(payload))
    /\ InitDispatch(DefaultOnboarding)
    /\ InitCleanup(NoTables)

CallGatewayHasMainAgentEntry(p, g, outcome) ==
    /\ pc[p] = "idle"
    /\ LET has == GatewayHasMainAgentEntry(gateways[g], outcome, cur[p].payload)
           check == [ made |-> TRUE, gateway |-> gateways[g],
                      outcome |-> outcome, payload |-> cur[p].payload,
                      called |-> has.called, value |-> has.value ]
       IN  result' = [result EXCEPT ![p] =
               IF has.raised = "none"
               THEN [Returned("roster", NoId) EXCEPT !.check = check]
               ELSE [Raised("roster", has.raised) EXCEPT !.check = check]]
    /\ UNCHANGED <<gateways, committed, pending, nextId, nextToken, clock,
                   registered, remoteToken, pc, cur, prov, sweep, lastUpsert,
                   prevUpsert>>
    /\ UNCHANGED <<dispatchVars, cleanupVars>>

NextRoster ==
    \E p \in Procs, g \in Gateways, outcome \in Outcomes :
        CallGatewayHasMainAgentEntry(p, g, outcome)

SpecRoster == InitRoster /\ [][NextRoster]_vars

(***************************************************************************)
(* C1. Idempotent reconciliation: when upsert_main_agent_record is called  *)
(* twice in a row for a gateway, with no change to the gateway or to the   *)
(* agent row in between, the second call reports changed = false and       *)
(* returns the agent the first call returned.                              *)
(***************************************************************************)
C1_IdempotentReconcile ==
    \A p \in Procs :
        (prevUpsert[p] # NoCall /\ prevUpsert[p].gw = lastUpsert[p].gw)
            => /\ ~lastUpsert[p].changed
               /\ lastUpsert[p].agent = prevUpsert[p].agent

(* A first call that corrected an existing row, then a second call.       *)
C1_Witness ==
    \E p \in Procs :
        /\ prevUpsert[p].gw = 2 /\ lastUpsert[p].gw = 2
        /\ prevUpsert[p].changed /\ ~prevUpsert[p].created
        /\ ~lastUpsert[p].changed
(***************************************************************************)
(* C2. At most one main agent per gateway, requests served one at a time:  *)
(* every gateway has at most one agent with board_id absent, and the       *)
(* gateway of each reconcile call made (directly, by ensure_main_agent or  *)
(* by ensure_gateway_agents_exist) has exactly one.                        *)
(***************************************************************************)
MainAgentsIn(rows, g) ==
    {a \in DOMAIN rows : rows[a].gateway_id = g /\ rows[a].board_id = NoBoard}

MainAgentCount(p, g) ==
    Cardinality(MainAgentsIn(Overlay(committed, pending[p]), g))

C2_OneMainAgent ==
    \A p \in Procs :
        /\ \A g \in Gateways :
              /\ MainAgentCount(p, g) <= 1
              /\ Cardinality(MainAgentsIn(committed, g)) <= 1
        /\ lastUpsert[p] # NoCall => MainAgentCount(p, lastUpsert[p].gw) = 1
        /\ prevUpsert[p] # NoCall => MainAgentCount(p, prevUpsert[p].gw) = 1

(* ensure_main_agent for a gateway, then a sweep that reconciled it again. *)
C2_Witness ==
    \E p \in Procs :
        /\ prevUpsert[p] # NoCall /\ ~prevUpsert[p].created
        /\ lastUpsert[p].gw # prevUpsert[p].gw
        /\ lastUpsert[p].created
        /\ cur[p].op = "sweep"
        /\ \A g \in Gateways : MainAgentCount(p, g) = 1

(***************************************************************************)
(* C3. Credential durability: at the return of provision_main_agent_record *)
(* the committed agent row holds the hash of the token generated by this   *)
(* call, with provision_requested_at and provision_action as stamped by    *)
(* it, whatever the outcome of the remote calls.                           *)
(***************************************************************************)
AtReturn(p) ==
    \/ prov[p].status = "returned"
    \/ prov[p].status = "running" /\ pc[p] = "prov_return"

C3_CredentialDurable ==
    \A p \in Procs :
        AtReturn(p) =>
            /\ prov[p].agent \in DOMAIN committed
            /\ committed[prov[p].agent].agent_token_hash
                  = HashAgentToken(prov[p].token)
            /\ committed[prov[p].agent].agent_token_hash # NoHash
            /\ committed[prov[p].agent].provision_requested_at = prov[p].at
            /\ committed[prov[p].agent].provision_action = prov[p].action

(* The method returned after its remote provision call failed. *)
C3_Witness ==
    \E p \in Procs :
        /\ prov[p].status = "returned"
        /\ prov[p].failedStep = "provision"
        /\ prov[p].failedKind = "gateway"

(***************************************************************************)
(* C4. Tiered swallow: when a remote step of provision_main_agent_record   *)
(* raises a gateway error, a local error or any other Exception, nothing   *)
(* is raised to the caller, no later remote step runs, and the method      *)
(* goes on to return the agent.                                            *)
(***************************************************************************)
LastCall(p) == prov[p].log[Len(prov[p].log)].call

C4_TieredSwallow ==
    \A p \in Procs :
        (prov[p].failedStep \in RemoteSteps /\ prov[p].failedKind \in ExceptionKinds)
            => /\ AtReturn(p)
               /\ LastCall(p) = prov[p].failedStep
               /\ result[p].outcome # "raised"

(* An unexpected exception in ensure_session, swallowed. *)
C4_Witness ==
    \E p \in Procs :
        /\ prov[p].status = "returned"
        /\ prov[p].failedStep = "ensure_session"
        /\ prov[p].failedKind = "other"
        /\ result[p] = Returned("ensure", prov[p].agent)
(***************************************************************************)
(* C6. Sweep provisioning condition: in ensure_gateway_agents_exist a      *)
(* gateway is provisioned exactly when reconciliation changed its record,  *)
(* or its agent has no credential hash, or the roster check reports the    *)
(* entry missing; a gateway that is not provisioned keeps its credential   *)
(* hash and sees no remote provisioning call.                              *)
(***************************************************************************)
SweepProvisions(p) ==
    \/ sweep[p].provisioned
    \/ pc[p] = "prov_local" /\ cur[p].op = "sweep"

C6_SweepCondition ==
    \A p \in Procs :
        sweep[p].decided =>
            /\ SweepProvisions(p)
                  <=> (sweep[p].changed \/ ~sweep[p].hasHash \/ ~sweep[p].hasEntry)
            /\ ~SweepProvisions(p) =>
                  /\ View(p)[sweep[p].agent].agent_token_hash = sweep[p].hashBefore
                  /\ prov[p] = NoProv

(* An unchanged agent with a hash, listed in the roster: left alone. *)
C6_Witness ==
    \E p \in Procs :
        /\ sweep[p].decided /\ sweep[p].roster = "ok"
        /\ ~sweep[p].changed /\ sweep[p].hasHash /\ sweep[p].hasEntry
        /\ ~sweep[p].provisioned
        /\ pc[p] = "sweep_next"

(***************************************************************************)
(* C7. Roster-check fail-open: with a URL configured, when agents.list     *)
(* raises the gateway error the roster check returns true and raises       *)
(* nothing, so the sweep does not reprovision an unchanged agent that has  *)
(* a credential hash.                                                      *)
(***************************************************************************)
C7_RosterFailOpen ==
    \A p \in Procs :
        (sweep[p].called /\ sweep[p].roster = "gateway")
            => /\ sweep[p].decided
               /\ sweep[p].hasEntry
               /\ (~sweep[p].changed /\ sweep[p].hasHash) => ~SweepProvisions(p)

(* The unreachable gateway of an agent that is already set up. *)
C7_Witness ==
    \E p \in Procs :
        /\ sweep[p].called /\ sweep[p].roster = "gateway"
        /\ ~sweep[p].changed /\ sweep[p].hasHash
        /\ ~registered[sweep[p].gw]
        /\ pc[p] = "sweep_next"

(***************************************************************************)
(* C9 as claimed: provision_main_agent_record never raises to its caller,  *)
(* whichever of its steps fails with an Exception, token generation,       *)
(* commit and refresh included.                                            *)
(***************************************************************************)
C9_NeverRaises ==
    \A p \in Procs :
        prov[p].failedKind \in ExceptionKinds => prov[p].status # "raised"

(***************************************************************************)
(* C9 as amended: an Exception raised by a remote step (provision,         *)
(* ensure_session, send_message) is never raised to the caller, while an   *)
(* Exception raised by token generation, commit or refresh, which precede  *)
(* the try block, is raised to the caller of provision_main_agent_record   *)
(* and of the handler that called it.                                      *)
(***************************************************************************)
C9_RaisesOnlyBeforeTry ==
    \A p \in Procs :
        prov[p].failedKind \in ExceptionKinds =>
            /\ prov[p].status = "raised" <=> prov[p].failedStep \in LocalSteps
            /\ prov[p].failedStep \in LocalSteps =>
                  result[p] = Raised(prov[p].caller, prov[p].failedKind)
            /\ prov[p].failedStep \in RemoteSteps => result[p].outcome # "raised"

(* The commit failed inside ensure_main_agent. *)
C9_Witness ==
    \E p \in Procs :
        /\ prov[p].status = "raised"
        /\ prov[p].failedStep = "commit"
        /\ prov[p].caller = "ensure"

(***************************************************************************)
(* C10. Ordering inside provision_main_agent_record: the rotated           *)
(* credential is committed before any remote call; the remote calls are    *)
(* provision, ensure_session and, only with notify, send_message with      *)
(* deliver=True, in that order, each made only after the earlier ones      *)
(* succeeded; without a URL no remote call is made and the method returns. *)
(***************************************************************************)
CallOrder(notify) ==
    IF notify THEN <<"commit", "provision", "ensure_session", "send_message">>
    ELSE <<"commit", "provision", "ensure_session">>

C10_Ordering ==
    \A p \in Procs :
        LET l == prov[p].log
            order == CallOrder(prov[p].notify)
        IN  /\ Len(l) <= Len(order)
            /\ \A i \in 1..Len(l) :
                  /\ l[i].call = order[i]
                  /\ l[i].call = "send_message" => l[i].deliver
                  /\ i < Len(l) => prov[p].failedStep # l[i].call
            /\ Len(l) >= 2 =>
                  committed[prov[p].agent].agent_token_hash
                      = HashAgentToken(prov[p].token)
            /\ (prov[p].status # "none" /\ prov[p].url = "") =>
                  /\ Len(l) <= 1
                  /\ prov[p].failedStep = "none" => AtReturn(p)

(* A notifying call that made all three remote calls and returned. *)
C10_Witness ==
    \E p \in Procs :
        /\ prov[p].status = "returned"
        /\ prov[p].notify
        /\ Len(prov[p].log) = 4
(***************************************************************************)
(* C5. Dispatch propagates: in dispatch_start_prompt and dispatch_answer a *)
(* gateway error or a timeout raised by the send reaches the caller as the *)
(* error the shared mapping makes of it for the operation; any other       *)
(* exception reaches the caller unchanged; the call returns normally only  *)
(* when the send succeeded, dispatch_start_prompt then returning the       *)
(* session key.                                                            *)
(***************************************************************************)
OperationOf(op) ==
    IF op = "start" THEN "ONBOARDING_START_DISPATCH"
    ELSE "ONBOARDING_ANSWER_DISPATCH"

C5_DispatchPropagates ==
    LET d == dispatched
    IN  d.op # "none" =>
          /\ d.send \in {"gateway", "timeout"} =>
                /\ d.outcome = "raised"
                /\ d.exc = [exception |-> "HTTPException",
                            operation |-> OperationOf(d.op), cause |-> d.send]
          /\ d.send \in {"other", "base"} =>
                /\ d.outcome = "raised"
                /\ d.exc = [exception |-> d.send, operation |-> "none",
                            cause |-> "none"]
          /\ d.outcome = "returned" <=> d.send = "ok"
          /\ (d.outcome = "returned" /\ d.op = "start") =>
                d.value = <<"agent:mc-gateway-", ToString(BoardGateway(d.board)),
                            ":main">>

(* A timeout while sending the start prompt. *)
C5_Witness ==
    /\ dispatched.op = "start"
    /\ dispatched.send = "timeout"
    /\ dispatched.outcome = "raised"

(***************************************************************************)
(* C8. Cascading cleanup: after clear_agent_foreign_keys(X) every task     *)
(* that was assigned to X is unassigned; it is in status inbox with a null *)
(* in_progress timestamp if it was in_progress, and keeps its status       *)
(* otherwise; every activity event and approval that referenced X has a    *)
(* null agent reference; nothing references X any more.                    *)
(***************************************************************************)
C8_CascadingCleanup ==
    cleared.agent_id # NoId =>
        LET X == cleared.agent_id
            before == cleared.before
        IN  /\ \A t \in DOMAIN tables.tasks :
                  before.tasks[t].assigned_agent_id = X =>
                      /\ tables.tasks[t].assigned_agent_id = NoId
                      /\ IF before.tasks[t].status = "in_progress"
                         THEN /\ tables.tasks[t].status = "inbox"
                              /\ tables.tasks[t].in_progress_at = NoTime
                         ELSE tables.tasks[t].status = before.tasks[t].status
            /\ \A t \in DOMAIN tables.tasks : tables.tasks[t].assigned_agent_id # X
            /\ \A e \in DOMAIN tables.events : tables.events[e].agent_id # X
            /\ \A a \in DOMAIN tables.approvals : tables.approvals[a].agent_id # X

(* The scenario of the specification: an in-progress task and a done task  *)
(* assigned to X, an activity event and an approval referencing X.         *)
C8_Witness ==
    /\ cleared.agent_id = 1
    /\ cleared.before.tasks[1].assigned_agent_id = 1
    /\ cleared.before.tasks[1].status = "in_progress"
    /\ cleared.before.tasks[2].assigned_agent_id = 1
    /\ cleared.before.tasks[2].status = "done"
    /\ cleared.before.events[1].agent_id = 1
    /\ cleared.before.approvals[1].agent_id = 1
    /\ tables.tasks[1].status = "inbox"
    /\ tables.tasks[2].status = "done"

(***************************************************************************)
(* C11. Per-gateway isolation in the sweep: no Exception raised by the     *)
(* remote side while one gateway is handled, at the roster check or at a   *)
(* remote step of provisioning, ends ensure_gateway_agents_exist; the      *)
(* sweep goes on with the gateways that follow in the list.                *)
(***************************************************************************)
SweepAbortedAt(p) ==
    IF ~(result[p].op = "sweep" /\ result[p].outcome = "raised") THEN "none"
    ELSE IF prov[p].status = "raised" THEN prov[p].failedStep
    ELSE "roster"

C11_SweepIsolation ==
    \A p \in Procs :
        result[p].exc \in ExceptionKinds =>
            SweepAbortedAt(p) \notin {"roster"} \cup RemoteSteps

(***************************************************************************)
(* C12. At most one main agent per gateway under concurrency: also when    *)
(* two requests reconcile the same gateway at the same time (through       *)
(* ensure_main_agent or ensure_gateway_agents_exist), every gateway has at *)
(* most one committed agent with board_id absent.                          *)
(***************************************************************************)
C12_OneMainAgentConcurrent ==
    \A g \in Gateways : Cardinality(MainAgentsIn(committed, g)) <= 1

(***************************************************************************)
(* C13. Unsynchronised credential rotation: concurrent calls for the same  *)
(* gateway each generate a token of their own and each commit its hash,    *)
(* and the agent row keeps the hash committed last (that of the call's own *)
(* token or of a token generated after it).  Nothing ties the order of the *)
(* commits to the order of the remote provision calls: the witness is the  *)
(* state in which two ensure_main_agent calls for one agent have returned, *)
(* every remote call having succeeded, and the committed hash is not the   *)
(* hash of the token the remote gateway received last.                     *)
(***************************************************************************)
Committing(p) == prov[p].status \in {"running", "returned"}

C13_LastWriteWins ==
    \A p \in Procs :
        Committing(p) =>
            /\ prov[p].agent \in DOMAIN committed
            /\ \E t \in prov[p].token..(nextToken - 1) :
                  committed[prov[p].agent].agent_token_hash = HashAgentToken(t)
            /\ \A q \in Procs \ {p} :
                  Committing(q) => prov[q].token # prov[p].token

AllRemoteCallsMade(p) ==
    /\ prov[p].status = "returned"
    /\ prov[p].caller = "ensure"
    /\ prov[p].failedStep = "none"
    /\ Len(prov[p].log) = 4

C13_Witness ==
    \E p \in Procs, q \in Procs :
        /\ p # q
        /\ AllRemoteCallsMade(p) /\ AllRemoteCallsMade(q)
        /\ prov[p].gw = prov[q].gw /\ prov[p].agent = prov[q].agent
        /\ remoteToken[prov[p].gw] \in {prov[p].token, prov[q].token}
        /\ committed[prov[p].agent].agent_token_hash
              # HashAgentToken(remoteToken[prov[p].gw])

(***************************************************************************)
(* C14. Raw credential confinement: the credential field of every agent    *)
(* row, committed or staged, is empty or the hash of a generated token,    *)
(* never a raw token; a provisioning call uses a token no earlier call     *)
(* used, hands it to the remote provision call alone, at most once, and to *)
(* no remote call when the gateway has no URL.                             *)
(***************************************************************************)
RawTokens == 1..(nextToken - 1)

StoredRows == {committed[a] : a \in DOMAIN committed}
                 \cup UNION {{pending[p][a] : a \in DOMAIN pending[p]} : p \in Procs}

TokenCalls(p) == {i \in 1..Len(prov[p].log) : prov[p].log[i].token # 0}

C14_RawTokenConfined ==
    /\ \A row \in StoredRows :
          /\ row.agent_token_hash \notin RawTokens
          /\ row.agent_token_hash \in
                {NoHash} \cup {HashAgentToken(t) : t \in RawTokens}
    /\ \A p \in Procs :
          /\ prov[p].status # "none" => prov[p].token \in RawTokens
          /\ Cardinality(TokenCalls(p)) <= 1
          /\ \A i \in TokenCalls(p) :
                /\ prov[p].log[i].call = "provision"
                /\ prov[p].log[i].token = prov[p].token
          /\ prov[p].url = "" => TokenCalls(p) = {}

(* A notifying call that made its three remote calls, and the row it left. *)
C14_Witness ==
    \E p \in Procs :
        /\ prov[p].status = "returned"
        /\ Len(prov[p].log) = 4
        /\ TokenCalls(p) = {2}
        /\ committed[prov[p].agent].agent_token_hash
              = HashAgentToken(prov[p].token)
        /\ remoteToken[prov[p].gw] = prov[p].token

(***************************************************************************)
(* C15. ensure_main_agent always provisions: every call goes from          *)
(* reconciliation into provision_main_agent_record with notify=True and    *)
(* the action it was given, whether or not reconciliation changed the      *)
(* record and whether or not the agent has a credential hash; a call that  *)
(* returns has replaced the committed credential hash and stamped          *)
(* provision_action with the action label.                                 *)
(***************************************************************************)
ProvisionPcs ==
    {"prov_local", "prov_remote", "prov_session", "prov_notify", "prov_return"}

C15_EnsureAlwaysProvisions ==
    \A p \in Procs :
        /\ cur[p].op = "ensure" =>
              /\ pc[p] \in ProvisionPcs
              /\ cur[p].notify /\ cur[p].action = cur[p].given
        /\ result[p].op = "ensure" => prov[p].caller = "ensure"
        /\ prov[p].caller = "ensure" =>
              prov[p].notify /\ prov[p].action = prov[p].given
        /\ result[p] = Returned("ensure", prov[p].agent) =>
              LET row == committed[prov[p].agent]
              IN  /\ row.agent_token_hash = HashAgentToken(prov[p].token)
                  /\ row.agent_token_hash # prov[p].hashBefore
                  /\ row.provision_action = prov[p].given

(* A call for an agent that reconciliation left unchanged and that had a   *)
(* credential hash already.                                                *)
C15_Witness ==
    \E p \in Procs :
        /\ result[p] = Returned("ensure", prov[p].agent)
        /\ prov[p].given = "reprovision"
        /\ lastUpsert[p].gw = prov[p].gw /\ ~lastUpsert[p].changed
        /\ prov[p].hashBefore # NoHash

(***************************************************************************)
(* C16. sync_templates: the sweep over [gateway] has completed when        *)
(* sync_gateway_templates is called; the call gets the gateway, the acting *)
(* user and the flags include_main, reset_sessions, rotate_tokens,         *)
(* force_bootstrap and board_id of the query unchanged; its result is      *)
(* returned and its failure reaches the caller as raised.                  *)
(***************************************************************************)
C16_SyncOrderAndPassThrough ==
    \A p \in Procs :
        /\ pc[p] = "sync_call" =>
              /\ cur[p].queue = <<>>
              /\ sweep[p].gw = cur[p].sync.gateway
        /\ result[p].call.made =>
              LET call == result[p].call
              IN  /\ result[p].op = "sync"
                  /\ call.swept = call.gateway
                  /\ call.gateway = call.request.gateway
                  /\ call.options.user = call.request.user
                  /\ \A f \in DOMAIN call.request.query :
                        call.options[f] = call.request.query[f]
                  /\ result[p].outcome \in {"returned", "raised"}
                  /\ result[p].outcome = "returned" =>
                        result[p].value \in SyncResults
                  /\ result[p].outcome = "raised" =>
                        result[p].exc \in AllKinds

(***************************************************************************)
(* C16, last part: an Exception raised by the remote side during the       *)
(* sweep (at the roster check or at a remote step of provisioning) does    *)
(* not keep sync_templates from calling sync_gateway_templates.            *)
(***************************************************************************)
SyncAbortedAt(p) ==
    IF ~(result[p].op = "sync" /\ result[p].outcome = "raised") THEN "none"
    ELSE IF result[p].call.made THEN "sync_gateway_templates"
    ELSE IF prov[p].status = "raised" THEN prov[p].failedStep
    ELSE "roster"

C16_SyncTemplates ==
    /\ C16_SyncOrderAndPassThrough
    /\ \A p \in Procs :
          result[p].exc \in ExceptionKinds =>
              SyncAbortedAt(p) \notin {"roster"} \cup RemoteSteps

(***************************************************************************)
(* C17. Derived identifiers are used consistently: for one gateway, the    *)
(* session key reconciliation stored on its main agent, the key of every   *)
(* remote call of provisioning (provision, ensure_session, welcome         *)
(* message) and the key dispatch_start_prompt sends to and returns are the *)
(* same, also after the gateway was renamed or got another URL: the key    *)
(* depends on the gateway's id alone.                                      *)
(***************************************************************************)
StartDispatched(g) ==
    /\ dispatched.op = "start"
    /\ dispatched.send # "not_sent"
    /\ BoardGateway(dispatched.board) = g

DerivedKey(board) == SessionKey(gateways[BoardGateway(board)])

C18_DispatchTargets ==
    (dispatched.op # "none" /\ dispatched.send # "not_sent") =>
        /\ ~sent.deliver
        /\ dispatched.op = "start" =>
              /\ sent.session_key = DerivedKey(dispatched.board)
              /\ sent.message \in Prompts
              /\ dispatched.outcome = "returned" =>
                    dispatched.value = DerivedKey(dispatched.board)
        /\ dispatched.op = "answer" =>
              /\ sent.session_key = onboarding[dispatched.board].session_key
              /\ sent.message \in Answers

(* An answer sent to a stored key that is not the derived one. *)
C18_Witness ==
    /\ dispatched.op = "answer"
    /\ dispatched.outcome = "returned"
    /\ sent.session_key = onboarding[dispatched.board].session_key
    /\ sent.session_key # DerivedKey(dispatched.board)

(***************************************************************************)
(* C19 as claimed: a second sweep run right after a first one, with no     *)
(* change in between to the gateways, the agent rows or the remote roster, *)
(* provisions no gateway of the first sweep's list, one without a URL      *)
(* included.                                                               *)
(***************************************************************************)
C19_SecondSweepQuiet ==
    \A p \in Procs :
        (sweep[p].repeat /\ sweep[p].decided) => ~SweepProvisions(p)

(***************************************************************************)
(* C19 as amended: the sweep never asks for the notification message and   *)
(* never sends it.  In a second sweep run right after a first one with no  *)
(* change in between, reconciliation changes nothing and the agent has a   *)
(* credential hash, so a gateway is provisioned exactly when its roster    *)
(* check reports the entry missing: never when the roster lists the entry  *)
(* or the listing fails with the gateway error (the hash stays as the      *)
(* first sweep left it), always when the gateway has no URL.               *)
(***************************************************************************)
SentMessages(p) ==
    {i \in 1..Len(prov[p].log) : prov[p].log[i].call = "send_message"}

C19_SecondSweep ==
    \A p \in Procs :
        /\ prov[p].caller \in {"sweep", "sync"} =>
              ~prov[p].notify /\ SentMessages(p) = {}
        /\ (sweep[p].repeat /\ sweep[p].decided) =>
              /\ ~sweep[p].changed /\ sweep[p].hasHash
              /\ SweepProvisions(p) <=> ~sweep[p].hasEntry
              /\ gateways[sweep[p].gw].url = "" => SweepProvisions(p)
              /\ sweep[p].hasEntry =>
                    /\ prov[p] = NoProv
                    /\ View(p)[sweep[p].agent].agent_token_hash
                          = sweep[p].hashBefore

(* The second sweep leaves alone a gateway the first one provisioned. *)
C19_Witness ==
    \E p \in Procs :
        /\ sweep[p].repeat /\ sweep[p].decided
        /\ sweep[p].roster = "ok" /\ sweep[p].hasEntry
        /\ pc[p] = "sweep_next"
        /\ remoteToken[sweep[p].gw] # 0
        /\ sweep[p].hashBefore = HashAgentToken(remoteToken[sweep[p].gw])

(***************************************************************************)
(* C20. Roster check on a successful listing: gateway_has_main_agent_entry *)
(* returns false without a remote call when the gateway has no URL; when   *)
(* agents.list succeeds it returns true exactly when some entry of the     *)
(* roster (the payload if it is a list, else its "agents" list, else       *)
(* nothing) has an id equal to the gateway's derived external agent id: a  *)
(* string entry's id is the trimmed string, a record's id is the first     *)
(* non-blank trimmed string among id, agentId, agent_id in that order.     *)
(* The ids are computed here from the words above: the trimmed text is the *)
(* stretch from the first to the last piece that is not a blank.           *)
(***************************************************************************)
NonBlankAt(text) == {i \in 1..Len(text) : text[i] # " "}

Lowest(S) == CHOOSE i \in S : \A j \in S : i <= j

Highest(S) == CHOOSE i \in S : \A j \in S : j <= i

Trimmed(text) ==
    IF NonBlankAt(text) = {} THEN <<>>
    ELSE SubSeq(text, Lowest(NonBlankAt(text)), Highest(NonBlankAt(text)))

RecordKeys(entry) == <<entry.id, entry.agentId, entry.agent_id>>

NonBlankKeys(entry) ==
    {i \in 1..3 : /\ RecordKeys(entry)[i].kind = "str"
                  /\ Trimmed(RecordKeys(entry)[i].value) # <<>>}

EntryHasId(entry, target) ==
    IF entry.kind = "str" THEN Trimmed(entry.value) = target
    ELSE IF entry.kind = "dict"
    THEN /\ NonBlankKeys(entry) # {}
         /\ Trimmed(RecordKeys(entry)[Lowest(NonBlankKeys(entry))].value) = target
    ELSE FALSE

RosterOf(payload) ==
    IF payload.kind = "list" THEN payload.items
    ELSE IF payload.kind = "dict" /\ payload.agents.kind = "list"
    THEN payload.agents.items
    ELSE <<>>

RosterNames(payload, target) ==
    \E i \in 1..Len(RosterOf(payload)) : EntryHasId(RosterOf(payload)[i], target)

C20_RosterCheck ==
    \A p \in Procs :
        result[p].check.made =>
            /\ result[p].check.gateway.url = "" =>
                  /\ ~result[p].check.called
                  /\ result[p].outcome = "returned"
                  /\ result[p].check.value = FALSE
            /\ (result[p].check.gateway.url # "" /\ result[p].check.outcome = "ok") =>
                  /\ result[p].check.called
                  /\ result[p].outcome = "returned"
                  /\ result[p].check.value <=>
                        RosterNames(result[p].check.payload,
                                    OpenclawAgentId(result[p].check.gateway))

(* A listing succeeded whose second entry names the agent under agentId,   *)
(* padded, behind a blank id, after a first entry that names another.      *)
C20_Witness ==
    \E p \in Procs :
        /\ result[p].check.made /\ result[p].check.called
        /\ result[p].check.outcome = "ok" /\ result[p].check.value
        /\ result[p].check.payload.kind = "dict"
        /\ Len(RosterOf(result[p].check.payload)) = 2
        /\ RosterOf(result[p].check.payload)[1] =
              DictEntry(StrVal(OtherId), Absent, Absent)
        /\ RosterOf(result[p].check.payload)[2] =
              DictEntry(StrVal(<<" ">>), StrVal(Padded(Gateway1AgentId)), Absent)

(***************************************************************************)
(* C21. Reconciliation postcondition: after upsert_main_agent_record the   *)
(* returned agent has board_id absent, the gateway's id, is_board_lead     *)
(* false, the computed name, the derived session key, a heartbeat config,  *)
(* an identity profile and a non-empty status; a created agent has status  *)
(* "provisioning"; a heartbeat config, identity profile and non-empty      *)
(* status that the row found already had are kept.                         *)
(***************************************************************************)
Reconciled(row, gateway) ==
    /\ row.board_id = NoBoard
    /\ row.gateway_id = gateway.id
    /\ ~row.is_board_lead
    /\ row.name = BuildMainAgentName(gateway)
    /\ row.openclaw_session_id = SessionKey(gateway)
    /\ row.heartbeat_config # None
    /\ row.identity_profile # None
    /\ row.status # ""

KeptFrom(before, row) ==
    /\ before.heartbeat_config # None =>
          row.heartbeat_config = before.heartbeat_config
    /\ before.identity_profile # None =>
          row.identity_profile = before.identity_profile
    /\ before.status # "" => row.status = before.status

ReconcilePost(p, g) ==
    /\ lastUpsert'[p].gw = g
    /\ lastUpsert'[p].agent \in DOMAIN Overlay(committed', pending'[p])
    /\ result'[p].agent = lastUpsert'[p].agent
    /\ Reconciled(Overlay(committed', pending'[p])[lastUpsert'[p].agent],
                  gateways[g])
    /\ IF lastUpsert'[p].created
       THEN /\ lastUpsert'[p].agent \notin DOMAIN View(p)
            /\ Overlay(committed', pending'[p])[lastUpsert'[p].agent].status
                  = "provisioning"
       ELSE /\ lastUpsert'[p].agent \in DOMAIN View(p)
            /\ KeptFrom(View(p)[lastUpsert'[p].agent],
                        Overlay(committed', pending'[p])[lastUpsert'[p].agent])

C21_ReconcilePostcondition ==
    [][\A p \in Procs, g \in Gateways : CallUpsert(p, g) => ReconcilePost(p, g)]_vars

(* A row with its own heartbeat config and status, whose name and missing  *)
(* identity profile were corrected.                                        *)
C21_Witness ==
    \E p \in Procs :
        /\ lastUpsert[p].gw = 2 /\ lastUpsert[p].changed /\ ~lastUpsert[p].created
        /\ Reconciled(View(p)[lastUpsert[p].agent], gateways[2])
        /\ View(p)[lastUpsert[p].agent].heartbeat_config = "custom_heartbeat"
        /\ View(p)[lastUpsert[p].agent].identity_profile = BuildIdentityProfile
        /\ View(p)[lastUpsert[p].agent].status = "online"
        /\ View(p)[lastUpsert[p].agent].updated_at # NoTime

(***************************************************************************)
(* C22. Changed flag and frame of reconciliation: upsert_main_agent_record *)
(* returns changed = true exactly when it created the record or corrected  *)
(* at least one field; when changed = false no field of the agent is       *)
(* modified (updated_at included) and nothing is staged; in both cases     *)
(* nothing is committed and the credential hash, provision_requested_at    *)
(* and provision_action are not touched.                                   *)
(***************************************************************************)
CorrectedFields ==
    { "board_id", "gateway_id", "is_board_lead", "name", "openclaw_session_id",
      "heartbeat_config", "identity_profile", "status" }

CredentialFields ==
    { "agent_token_hash", "provision_requested_at", "provision_action" }

SomeFieldCorrected(before, row) == \E f \in CorrectedFields : row[f] # before[f]

ReconcileFrame(p, g) ==
    /\ committed' = committed
    /\ \A a \in DOMAIN View(p) :
          a # lastUpsert'[p].agent =>
              /\ a \in DOMAIN Overlay(committed', pending'[p])
              /\ Overlay(committed', pending'[p])[a] = View(p)[a]
    /\ IF lastUpsert'[p].created
       THEN /\ lastUpsert'[p].changed
            /\ \A f \in CredentialFields :
                  Overlay(committed', pending'[p])[lastUpsert'[p].agent][f]
                     = NewMainAgent(gateways[g])[f]
       ELSE /\ lastUpsert'[p].changed <=>
                  SomeFieldCorrected(
                      View(p)[lastUpsert'[p].agent],
                      Overlay(committed', pending'[p])[lastUpsert'[p].agent])
            /\ \A f \in CredentialFields :
                  Overlay(committed', pending'[p])[lastUpsert'[p].agent][f]
                     = View(p)[lastUpsert'[p].agent][f]
    /\ ~lastUpsert'[p].changed =>
          /\ pending' = pending
          /\ Overlay(committed', pending'[p])[lastUpsert'[p].agent]
                = View(p)[lastUpsert'[p].agent]

C22_ChangedFlagAndFrame ==
    [][\A p \in Procs, g \in Gateways : CallUpsert(p, g) => ReconcileFrame(p, g)]_vars

(* A call that changed nothing on a row with a credential, after a call    *)
(* that corrected the row.                                                 *)
C22_Witness ==
    \E p \in Procs :
        /\ prevUpsert[p].gw = 2 /\ prevUpsert[p].changed /\ ~prevUpsert[p].created
        /\ lastUpsert[p].gw = 2 /\ ~lastUpsert[p].changed
        /\ View(p)[lastUpsert[p].agent].agent_token_hash # NoHash
        /\ pending[p] # EmptyRows

(***************************************************************************)
(* C23. Notification condition: the welcome message is sent exactly when   *)
(* provision_main_agent_record was invoked with notify = true, the gateway *)
(* has a URL, and both the provision call and ensure_session succeeded; it *)
(* is sent at most once per provisioning call, and never by                *)
(* ensure_gateway_agents_exist or by sync_templates.                       *)
(***************************************************************************)
CallsMade(p, call) ==
    {i \in 1..Len(prov[p].log) : prov[p].log[i].call = call}

CallSucceeded(p, call) ==
    /\ CallsMade(p, call) # {}
    /\ prov[p].failedStep # call
    /\ pc[p] # (CASE call = "provision" -> "prov_remote"
                  [] call = "ensure_session" -> "prov_session"
                  [] OTHER -> "prov_notify")

ProvisioningOver(p) ==
    \/ prov[p].status \in {"returned", "raised"}
    \/ prov[p].status = "running" /\ pc[p] = "prov_return"

MayNotify(p) ==
    /\ prov[p].notify
    /\ prov[p].url # ""
    /\ CallSucceeded(p, "provision")
    /\ CallSucceeded(p, "ensure_session")

C23_NotificationCondition ==
    \A p \in Procs :
        /\ Cardinality(CallsMade(p, "send_message")) <= 1
        /\ CallsMade(p, "send_message") # {} => MayNotify(p)
        /\ (ProvisioningOver(p) /\ MayNotify(p)) =>
              CallsMade(p, "send_message") # {}
        /\ prov[p].caller \in {"sweep", "sync"} =>
              CallsMade(p, "send_message") = {}
        /\ prov[p].status # "none" =>
              prov[p].notify = (prov[p].caller = "ensure")

(* Both kinds of provisioning got through both remote calls: one invoked   *)
(* by ensure_main_agent sent the message, one invoked inside               *)
(* sync_templates did not.                                                 *)
C23_Witness ==
    \E p \in Procs :
        /\ prov[p].status = "returned" /\ prov[p].caller = "sync"
        /\ prov[p].url # ""
        /\ CallSucceeded(p, "provision") /\ CallSucceeded(p, "ensure_session")
        /\ CallsMade(p, "send_message") = {}
        /\ remoteToken[prov[p].gw] = prov[p].token

C23_WitnessSent ==
    \E p \in Procs :
        /\ prov[p].status = "returned" /\ prov[p].caller = "ensure"
        /\ CallsMade(p, "send_message") # {}
        /\ prov[p].failedStep = "send_message"

(***************************************************************************)
(* C24. Self-healing liveness: for a gateway with a URL whose remote       *)
(* roster lacks the main agent's entry, if sweeps keep being run and from  *)
(* some point on every remote call succeeds, then eventually a sweep       *)
(* performs a complete successful remote provisioning (provision call and  *)
(* ensure_session) for that gateway, and the system reaches a state from   *)
(* which further sweeps no longer provision that gateway.                  *)
(***************************************************************************)
LacksEntry(g) == gateways[g].url # "" /\ ~registered[g]

SweepCompleted(g) ==
    \E p \in Procs :
        /\ prov[p].caller = "sweep" /\ prov[p].gw = g
        /\ CallSucceeded(p, "provision")
        /\ CallSucceeded(p, "ensure_session")

SweepQuiet(g) ==
    \A p \in Procs :
        ~(cur[p].op = "sweep" /\ cur[p].gw = g /\ pc[p] \in ProvisionPcs)

C24_SelfHealing ==
    /\ LacksEntry(1) ~> SweepCompleted(1)
    /\ <>[]SweepQuiet(1)

(* The same with the roster lacking the entry at the point from which      *)
(* every call succeeds.                                                    *)
C24_SelfHealingOnceCalm ==
    /\ (LacksEntry(1) /\ Calm) ~> SweepCompleted(1)
    /\ <>[]SweepQuiet(1)

(* Sweeps keep checking the roster of a gateway that is registered and     *)
(* whose provisioning by a sweep got through both calls.                   *)
C24_Witness ==
    \E p \in Procs :
        /\ Calm /\ registered[1] /\ SweepCompleted(1)
        /\ prov[p].status = "returned" /\ pc[p] = "idle"
        /\ result[p].op = "sweep" /\ result[p].outcome = "returned"

(***************************************************************************)
(* C25. Local/remote credential agreement after a clean sweep: with        *)
(* ensure_main_agent and ensure_gateway_agents_exist called one after the  *)
(* other and remote calls failing in any way, once a sweep over a gateway  *)
(* with a URL is through with that gateway and every remote call it made   *)
(* for it succeeded, the agent's committed credential hash is the hash of  *)
(* the token the remote gateway accepted last.                             *)
(***************************************************************************)
CleanSweepOf(p) ==
    /\ cur[p].op = "sweep" /\ pc[p] = "sweep_next"
    /\ sweep[p].decided /\ sweep[p].gw = cur[p].gw
    /\ gateways[sweep[p].gw].url # ""
    /\ sweep[p].called /\ sweep[p].roster = "ok"
    /\ \/ prov[p] = NoProv
       \/ /\ prov[p].status = "returned" /\ prov[p].failedStep = "none"
          /\ CallSucceeded(p, "provision")
          /\ CallSucceeded(p, "ensure_session")

C25_CredentialAgreement ==
    \A p \in Procs :
        CleanSweepOf(p) =>
            /\ sweep[p].agent \in DOMAIN committed
            /\ committed[sweep[p].agent].agent_token_hash
                  = HashAgentToken(remoteToken[sweep[p].gw])

(* A clean sweep that did not provision, over an agent whose committed     *)
(* hash is not that of the token the remote gateway holds.                 *)
C25_Witness ==
    \E p \in Procs :
        /\ CleanSweepOf(p) /\ prov[p] = NoProv
        /\ remoteToken[sweep[p].gw] # 0
        /\ committed[sweep[p].agent].agent_token_hash
              # HashAgentToken(remoteToken[sweep[p].gw])

(***************************************************************************)
(* C26. Frame of the cascading cleanup: clear_agent_foreign_keys(X) leaves *)
(* unchanged every task not assigned to X, every activity event and        *)
(* approval not referencing X, and the agent rows; of a task assigned to X *)
(* it changes no field other than assignee, status, in_progress timestamp  *)
(* and updated_at; and it commits nothing.                                 *)
(***************************************************************************)
CleanupTaskFields ==
    {"assigned_agent_id", "status", "in_progress_at", "updated_at"}

KeptRows(before, after, touched) ==
    /\ DOMAIN after = DOMAIN before
    /\ \A r \in DOMAIN before : r \notin touched => after[r] = before[r]

CleanupFrame(X) ==
    /\ KeptRows(tables.tasks, tables'.tasks,
                {t \in DOMAIN tables.tasks : tables.tasks[t].assigned_agent_id = X})
    /\ KeptRows(tables.events, tables'.events,
                {e \in DOMAIN tables.events : tables.events[e].agent_id = X})
    /\ KeptRows(tables.approvals, tables'.approvals,
                {a \in DOMAIN tables.approvals : tables.approvals[a].agent_id = X})
    /\ \A t \in DOMAIN tables.tasks :
          /\ DOMAIN tables'.tasks[t] = DOMAIN tables.tasks[t]
          /\ \A f \in (DOMAIN tables.tasks[t]) \ CleanupTaskFields :
                tables'.tasks[t][f] = tables.tasks[t][f]
    /\ committed' = committed
    /\ pending' = pending
    /\ durable' = durable

C26_CleanupFrame ==
    [][\A X \in AgentIds : ClearAgentForeignKeys(X) => CleanupFrame(X)]_vars

(* Agent 1 was cleared; a finished task and an event of agent 2 are as     *)
(* they were, and the cleared rows are not committed.                      *)
C26_Witness ==
    /\ cleared.agent_id = 1
    /\ cleared.before.tasks[1].assigned_agent_id = 1
    /\ cleared.before.tasks[1].status = "in_progress"
    /\ cleared.before.tasks[2].assigned_agent_id = 2
    /\ cleared.before.tasks[2].status = "done"
    /\ tables.tasks[2] = cleared.before.tasks[2]
    /\ cleared.before.events[1].agent_id = 1
    /\ cleared.before.events[2].agent_id = 2
    /\ tables.events[2] = cleared.before.events[2]
    /\ tables.events[1].agent_id = NoId
    /\ durable = cleared.before
    /\ durable # tables

====
